---- MODULE Spec2Model ----
(***************************************************************************)
(* Allocation and consolidation engine of Eco-logistics:                   *)
(*   allocateRoutes            (src/controllers/routeController.js 21-156) *)
(*   acceptSynergy             (src/controllers/routeController.js 576-611)*)
(*   handleHandshake           (src/controllers/routeController.js 476-550)*)
(* The store (prisma) is modelled by the variables deliveries, trucks,     *)
(* routes, drivers and opps.  Identifiers are positive integers; Null (0)  *)
(* stands for a JavaScript null/undefined/0, which the code's `!x` and     *)
(* `x || y` tests do not tell apart.                                       *)
(***************************************************************************)
EXTENDS Integers, Sequences, FiniteSets, TLC

VARIABLES
    deliveries,   \* Delivery table: id -> row
    trucks,       \* Truck table: id -> row
    routes,       \* OptimizedRoute table: sequence of rows, id = position
    drivers,      \* User table (drivers): id -> row
    opps,         \* AbsorptionOpportunity table: id -> row
    hubs,         \* VirtualHub table: id -> row
    now,          \* the clock read by new Date()
    calls,        \* requests in flight: call id -> position and locals
    pre,          \* the store as it was when the last finished request began
    res           \* the last finished request: its input and its response

vars == <<deliveries, trucks, routes, drivers, opps, hubs, now, calls, pre, res>>

----------------------------------------------------------------------------
(* Bounds of the model *)

NumDeliveries == 3
NumTrucks == 2
MaxRequests == 2
MaxStamps == 3

Null == 0

DeliveryIds == 1..NumDeliveries
TruckIds == 1..NumTrucks
DriverIds == 1..NumTrucks
Companies == {1, 2}
\* Cargo as <<cargoWeight, cargoVolumeLtrs>>.
Cargoes == {<<2, 1>>, <<3, 3>>, <<4, 1>>}
\* Capacity limits a truck may have; Null is an absent limit.
TruckMaxWeights == {Null, 5}
TruckMaxVolumes == {Null, 2}

----------------------------------------------------------------------------
(* Helpers *)

Range(s) == {s[i] : i \in 1..Len(s)}

\* All sequences that list the elements of the finite set S once each.
RECURSIVE Orderings(_)
Orderings(S) ==
    IF S = {} THEN {<<>>}
    ELSE UNION {{<<x>> \o s : s \in Orderings(S \ {x})} : x \in S}

RECURSIVE SumWeight(_, _)
SumWeight(ds, S) ==
    IF S = {} THEN 0
    ELSE LET d == CHOOSE x \in S : TRUE
         IN ds[d].cargoWeight + SumWeight(ds, S \ {d})

RECURSIVE SumVolume(_, _)
SumVolume(ds, S) ==
    IF S = {} THEN 0
    ELSE LET d == CHOOSE x \in S : TRUE
         IN ds[d].cargoVolumeLtrs + SumVolume(ds, S \ {d})

Store == [deliveries |-> deliveries, trucks |-> trucks, routes |-> routes, opps |-> opps]

----------------------------------------------------------------------------
(* allocateRoutes: the reads *)

\* tx.delivery / prisma.delivery rows with status PENDING of the company,
\* orderBy timeWindowStart asc.  Rows with equal timeWindowStart come back in
\* an order the store does not fix: every order is a possible result.
PendingDeliveries(st, companyId) ==
    LET S == {d \in DOMAIN st.deliveries :
                 /\ st.deliveries[d].courierCompanyId = companyId
                 /\ st.deliveries[d].status = "PENDING"}
    IN {q \in Orderings(S) :
           \A i, j \in 1..Len(q) :
               i < j => st.deliveries[q[i]].timeWindowStart
                            <= st.deliveries[q[j]].timeWindowStart}

AvailableTrucksAnyRegistration(st, companyId) ==
    LET S == {t \in DOMAIN st.trucks :
                 /\ st.trucks[t].courierCompanyId = companyId
                 /\ st.trucks[t].isAvailable}
    IN {l \in Orderings(S) : \A i, j \in 1..Len(l) : i < j => l[i] < l[j]}

\* Trucks of the company with isAvailable and registrationStatus APPROVED.
\* findMany has no orderBy: the rows come back in the store's own order, which
\* is the order of the ids here (Init lets every truck be at every place).
AvailableTrucks(st, companyId) ==
    LET S == {t \in DOMAIN st.trucks :
                 /\ st.trucks[t].courierCompanyId = companyId
                 /\ st.trucks[t].isAvailable
                 /\ st.trucks[t].registrationStatus = "APPROVED"}
    IN {l \in Orderings(S) : \A i, j \in 1..Len(l) : i < j => l[i] < l[j]}

----------------------------------------------------------------------------
(* allocateRoutes: the greedy loop *)

\* total <= (limit || Infinity)
\* (a comparison that lets everything through)
FitsLimitUnchecked(total, limit) == TRUE

FitsLimit(total, limit) == IF limit = Null THEN TRUE ELSE total <= limit

\* (a loop that skips a delivery that does not fit and looks further)
RECURSIVE FillTruckLookAhead(_, _, _, _, _, _, _)
FillTruckLookAhead(st, t, queue, idx, currentWeight, currentVolume, routeDeliveries) ==
    IF idx > Len(queue)
    THEN [truck |-> t, deliveries |-> routeDeliveries, totalWeight |-> currentWeight,
          totalVolume |-> currentVolume, deliveryIndex |-> idx]
    ELSE LET delivery == st.deliveries[queue[idx]]
             fits == /\ FitsLimit(currentWeight + delivery.cargoWeight,
                                  st.trucks[t].maxWeight)
                     /\ FitsLimit(currentVolume + delivery.cargoVolumeLtrs,
                                  st.trucks[t].maxVolume)
         IN IF fits
            THEN FillTruckLookAhead(st, t, queue, idx + 1,
                                    currentWeight + delivery.cargoWeight,
                                    currentVolume + delivery.cargoVolumeLtrs,
                                    Append(routeDeliveries, queue[idx]))
            ELSE FillTruckLookAhead(st, t, queue, idx + 1, currentWeight,
                                    currentVolume, routeDeliveries)

\* The while loop of one truck: takes deliveries from queue[idx] on while they
\* fit, stops at the first that does not.
RECURSIVE FillTruck(_, _, _, _, _, _, _)
FillTruck(st, t, queue, idx, currentWeight, currentVolume, routeDeliveries) ==
    IF idx > Len(queue)
    THEN [truck |-> t, deliveries |-> routeDeliveries, totalWeight |-> currentWeight,
          totalVolume |-> currentVolume, deliveryIndex |-> idx]
    ELSE LET delivery == st.deliveries[queue[idx]]
             fitsWeight == FitsLimit(currentWeight + delivery.cargoWeight,
                                     st.trucks[t].maxWeight)
             fitsVolume == FitsLimit(currentVolume + delivery.cargoVolumeLtrs,
                                     st.trucks[t].maxVolume)
         IN IF fitsWeight /\ fitsVolume
            THEN FillTruck(st, t, queue, idx + 1,
                           currentWeight + delivery.cargoWeight,
                           currentVolume + delivery.cargoVolumeLtrs,
                           Append(routeDeliveries, queue[idx]))
            ELSE [truck |-> t, deliveries |-> routeDeliveries,
                  totalWeight |-> currentWeight, totalVolume |-> currentVolume,
                  deliveryIndex |-> idx]

\* (a loop that keeps the allocation of a truck that received nothing)
RECURSIVE AllocationLoopKeepEmpty(_, _, _, _, _, _)
AllocationLoopKeepEmpty(st, truckList, queue, k, idx, allocations) ==
    IF k > Len(truckList) \/ idx > Len(queue)
    THEN allocations
    ELSE LET filled == FillTruck(st, truckList[k], queue, idx, 0, 0, <<>>)
             alloc == [truck |-> filled.truck, deliveries |-> filled.deliveries,
                       totalWeight |-> filled.totalWeight,
                       totalVolume |-> filled.totalVolume]
         IN AllocationLoopKeepEmpty(st, truckList, queue, k + 1, filled.deliveryIndex,
                                    Append(allocations, alloc))

\* The for loop over the trucks: truck k of truckList continues at idx.
RECURSIVE AllocationLoop(_, _, _, _, _, _)
AllocationLoop(st, truckList, queue, k, idx, allocations) ==
    IF k > Len(truckList) \/ idx > Len(queue)
    THEN allocations
    ELSE LET filled == FillTruck(st, truckList[k], queue, idx, 0, 0, <<>>)
             alloc == [truck |-> filled.truck, deliveries |-> filled.deliveries,
                       totalWeight |-> filled.totalWeight,
                       totalVolume |-> filled.totalVolume]
         IN AllocationLoop(st, truckList, queue, k + 1, filled.deliveryIndex,
                           IF Len(filled.deliveries) > 0
                           THEN Append(allocations, alloc)
                           ELSE allocations)

GreedyAllocation(st, truckList, queue) ==
    AllocationLoop(st, truckList, queue, 1, 1, <<>>)

----------------------------------------------------------------------------
(* allocateRoutes: the writes of the transaction *)

\* tx.optimizedRoute.create
CreateRoute(st, alloc, companyId) ==
    [st EXCEPT !.routes = Append(@,
        [id |-> Len(st.routes) + 1,
         courierCompanyId |-> companyId,
         truckId |-> alloc.truck,
         driverId |-> st.trucks[alloc.truck].ownerId,
         totalPackages |-> Len(alloc.deliveries),
         totalWeight |-> alloc.totalWeight,
         totalVolume |-> alloc.totalVolume,
         status |-> "ALLOCATED"])]

\* (an update that binds the deliveries and leaves their status)
UpdateDeliveriesKeepPending(st, alloc, routeId) ==
    [st EXCEPT !.deliveries =
        [d \in DOMAIN st.deliveries |->
            IF d \in Range(alloc.deliveries)
            THEN [st.deliveries[d] EXCEPT
                     !.truckId = alloc.truck,
                     !.driverId = st.trucks[alloc.truck].ownerId,
                     !.optimizedRouteId = routeId]
            ELSE st.deliveries[d]]]

\* tx.delivery.updateMany where id in deliveries.map(d => d.id)
UpdateDeliveries(st, alloc, routeId) ==
    [st EXCEPT !.deliveries =
        [d \in DOMAIN st.deliveries |->
            IF d \in Range(alloc.deliveries)
            THEN [st.deliveries[d] EXCEPT
                     !.truckId = alloc.truck,
                     !.driverId = st.trucks[alloc.truck].ownerId,
                     !.optimizedRouteId = routeId,
                     !.status = "ALLOCATED"]
            ELSE st.deliveries[d]]]

UpdateTruckKeepAvailable(st, alloc) == st

\* tx.truck.update data { isAvailable: false }
UpdateTruck(st, alloc) ==
    [st EXCEPT !.trucks[alloc.truck].isAvailable = FALSE]

\* The first n writes of the transaction body, three per allocation, in order.
RECURSIVE ApplyWrites(_, _, _, _)
ApplyWrites(st, allocations, companyId, n) ==
    IF n = 0 THEN st
    ELSE LET before == ApplyWrites(st, allocations, companyId, n - 1)
             alloc == allocations[((n - 1) \div 3) + 1]
             kind == (n - 1) % 3
         IN CASE kind = 0 -> CreateRoute(before, alloc, companyId)
              [] kind = 1 -> UpdateDeliveries(before, alloc, Len(before.routes))
              [] kind = 2 -> UpdateTruck(before, alloc)

\* prisma.$transaction(async tx => ...): failAt = 0 when no write throws, else
\* the number of the write that throws; a throw rolls every write back.
\* (writes issued outside a transaction: what precedes the throw stays)
TransactionNoRollback(st, allocations, companyId, failAt) ==
    IF failAt = 0
    THEN [ok |-> TRUE, store |-> ApplyWrites(st, allocations, companyId, 3 * Len(allocations))]
    ELSE [ok |-> FALSE, store |-> ApplyWrites(st, allocations, companyId, failAt - 1)]

Transaction(st, allocations, companyId, failAt) ==
    IF failAt = 0
    THEN [ok |-> TRUE, store |-> ApplyWrites(st, allocations, companyId, 3 * Len(allocations))]
    ELSE [ok |-> FALSE, store |-> st]

----------------------------------------------------------------------------
(* The store before any request *)

\* The deliveries an allocation can meet: pending and unbound, of any cargo
\* for the first company, of one cargo for the second.
DeliveryShapes ==
    {[cargoWeight |-> c[1], cargoVolumeLtrs |-> c[2], courierCompanyId |-> 1] :
        c \in Cargoes}
    \cup {[cargoWeight |-> 2, cargoVolumeLtrs |-> 1, courierCompanyId |-> 2]}

\* The trucks, all of the first company: approved with any limits, and one
\* unapproved shape.
TruckShapes ==
    {[maxWeight |-> mw, maxVolume |-> mv, courierCompanyId |-> 1,
      registrationStatus |-> "APPROVED"] :
        mw \in TruckMaxWeights, mv \in TruckMaxVolumes}
    \cup
    {[maxWeight |-> Null, maxVolume |-> Null, courierCompanyId |-> 1,
      registrationStatus |-> "PENDING"]}

\* The owner of truck t is a driver with another number than t where possible.
OwnerOf(t) == NumTrucks + 1 - t

\* Time windows are distinct instants.  Row ids carry no meaning to the
\* deliveries' reads (by field, in time-window order), so one numbering stands
\* for all: the later row has the earlier window.
InitDeliveries ==
    \E shape \in [DeliveryIds -> DeliveryShapes] :
        deliveries = [d \in DeliveryIds |->
                         [cargoWeight |-> shape[d].cargoWeight,
                          cargoVolumeLtrs |-> shape[d].cargoVolumeLtrs,
                          timeWindowStart |-> NumDeliveries + 1 - d,
                          courierCompanyId |-> shape[d].courierCompanyId,
                          status |-> "PENDING",
                          truckId |-> Null, driverId |-> Null,
                          optimizedRouteId |-> Null]]

InitTrucks ==
    \E shape \in [TruckIds -> TruckShapes] :
        trucks = [t \in TruckIds |->
                     [maxWeight |-> shape[t].maxWeight,
                      maxVolume |-> shape[t].maxVolume,
                      courierCompanyId |-> shape[t].courierCompanyId,
                      isAvailable |-> TRUE,
                      registrationStatus |-> shape[t].registrationStatus,
                      ownerId |-> OwnerOf(t)]]

NoResponse == [op |-> "none", code |-> Null]

Init ==
    /\ InitDeliveries
    /\ InitTrucks
    /\ routes = <<>>
    /\ drivers = [d \in DriverIds |-> [totalDistanceKm |-> Null, totalHoursWorked |-> Null]]
    /\ opps = <<>>
    /\ hubs = <<>>
    /\ now = 0
    /\ calls = <<>>
    /\ pre = Store
    /\ res = NoResponse

----------------------------------------------------------------------------
(* allocateRoutes, one request from its first line to its response *)

\* res.status(code).json({ success, message }), with the request and what the
\* handler had read and computed by then.
AllocateResponse(code, success, message, companyId, queue, truckList, allocations) ==
    [op |-> "allocate", code |-> code, success |-> success, message |-> message,
     companyId |-> companyId, queue |-> queue, truckList |-> truckList,
     allocations |-> allocations]

allocateRoutes(companyId) ==
    /\ now < MaxRequests
    /\ now' = now + 1
    /\ pre' = Store
    /\ UNCHANGED <<drivers, hubs, opps, calls>>
    /\ IF companyId = Null
       THEN /\ res' = AllocateResponse(400, FALSE, "courierCompanyId is required",
                                       companyId, <<>>, <<>>, <<>>)
            /\ UNCHANGED <<deliveries, trucks, routes>>
       ELSE \E queue \in PendingDeliveries(Store, companyId) :
            IF Len(queue) = 0
            THEN /\ res' = AllocateResponse(200, TRUE, "No pending deliveries to allocate",
                                            companyId, queue, <<>>, <<>>)
                 /\ UNCHANGED <<deliveries, trucks, routes>>
            ELSE \E truckList \in AvailableTrucks(Store, companyId) :
                 IF Len(truckList) = 0
                 THEN /\ res' = AllocateResponse(400, FALSE,
                                                 "No available trucks for allocation",
                                                 companyId, queue, truckList, <<>>)
                      /\ UNCHANGED <<deliveries, trucks, routes>>
                 ELSE LET allocations == GreedyAllocation(Store, truckList, queue)
                      IN \E failAt \in 0..(3 * Len(allocations)) :
                         LET tx == Transaction(Store, allocations, companyId, failAt)
                         IN /\ deliveries' = tx.store.deliveries
                            /\ trucks' = tx.store.trucks
                            /\ routes' = tx.store.routes
                            /\ res' = IF tx.ok
                                      THEN AllocateResponse(201, TRUE, "Allocated",
                                               companyId, queue, truckList, allocations)
                                      ELSE AllocateResponse(500, FALSE,
                                               "Internal server error during allocation",
                                               companyId, queue, truckList, allocations)

Next ==
    \E companyId \in Companies \cup {Null} : allocateRoutes(companyId)

Spec == Init /\ [][Next]_vars

----------------------------------------------------------------------------
(* allocateRoutes, requests running concurrently: a request gives way to the *)
(* others at each await (the two findMany reads, the transaction).           *)

NumCalls == 2
CallIds == 1..NumCalls

IdleCall ==
    [pc |-> "idle", companyId |-> Null, queue |-> <<>>, truckList |-> <<>>,
     allocations |-> <<>>, code |-> Null]

InitConcurrent ==
    /\ InitDeliveries
    /\ InitTrucks
    /\ routes = <<>>
    /\ drivers = [d \in DriverIds |-> [totalDistanceKm |-> Null, totalHoursWorked |-> Null]]
    /\ opps = <<>>
    /\ hubs = <<>>
    /\ now = 0
    /\ calls = [c \in CallIds |-> IdleCall]
    /\ pre = Store
    /\ res = NoResponse

\* Lines 23-40: the company id is checked and the pending deliveries are read.
AllocateReadDeliveries(c, companyId) ==
    /\ calls[c].pc = "idle"
    /\ IF companyId = Null
       THEN calls' = [calls EXCEPT ![c] = [@ EXCEPT !.pc = "done", !.code = 400]]
       ELSE \E queue \in PendingDeliveries(Store, companyId) :
            calls' = [calls EXCEPT ![c] =
                IF Len(queue) = 0
                THEN [@ EXCEPT !.pc = "done", !.companyId = companyId, !.code = 200]
                ELSE [@ EXCEPT !.pc = "readTrucks", !.companyId = companyId,
                               !.queue = queue]]
    /\ UNCHANGED <<deliveries, trucks, routes, drivers, hubs, opps, now, pre, res>>

\* Lines 42-94: the available trucks are read and the allocations computed
\* from the two results.
AllocateReadTrucks(c) ==
    /\ calls[c].pc = "readTrucks"
    /\ \E truckList \in AvailableTrucks(Store, calls[c].companyId) :
       calls' = [calls EXCEPT ![c] =
           IF Len(truckList) = 0
           THEN [@ EXCEPT !.pc = "done", !.code = 400]
           ELSE [@ EXCEPT !.pc = "transaction", !.truckList = truckList,
                          !.allocations = GreedyAllocation(Store, truckList,
                                                        calls[c].queue)]]
    /\ UNCHANGED <<deliveries, trucks, routes, drivers, hubs, opps, now, pre, res>>

\* Lines 96-155: the transaction writes the allocations computed from the
\* earlier reads; it reads nothing again.  It is taken as one step: the rows it
\* writes are locked until it commits.
AllocateTransaction(c) ==
    /\ calls[c].pc = "transaction"
    /\ \E failAt \in 0..(3 * Len(calls[c].allocations)) :
       LET tx == Transaction(Store, calls[c].allocations, calls[c].companyId, failAt)
       IN /\ deliveries' = tx.store.deliveries
          /\ trucks' = tx.store.trucks
          /\ routes' = tx.store.routes
          /\ calls' = [calls EXCEPT ![c] =
                 [@ EXCEPT !.pc = "done", !.code = IF tx.ok THEN 201 ELSE 500]]
    /\ UNCHANGED <<drivers, hubs, opps, now, pre, res>>

NextConcurrent ==
    \E c \in CallIds :
        \/ \E companyId \in Companies \cup {Null} : AllocateReadDeliveries(c, companyId)
        \/ AllocateReadTrucks(c)
        \/ AllocateTransaction(c)

SpecConcurrent == InitConcurrent /\ [][NextConcurrent]_vars

----------------------------------------------------------------------------
(* The opportunity ledger: acceptSynergy and handleHandshake *)

\* One opportunity is on record; an id beyond it names none.
OppIds == {1}
RequestedOppIds == OppIds \cup {Cardinality(OppIds) + 1}
RequestedRouteIds == 1..(NumTrucks + 1)

\* Drivers' <<totalDistanceKm, totalHoursWorked>>; Null is a missing figure.
Workloads == {<<Null, Null>>, <<Null, 1>>, <<2, Null>>, <<1, 1>>}

\* x || 0
OrZero(x) == IF x = Null THEN 0 ELSE x

\* The rows detectAbsorptionOpportunity creates (lines 425-451): two routes,
\* status PENDING, no acceptance yet.
\* Date.now() + 3600000: an opportunity lasts one hour, the unit of the clock.
OpportunityLifetime == 1

\* absorptionOpportunity.create, lines 425-451, at the instant createdAt.
NewOpportunity(id, route1Id, route2Id, createdAt) ==
    [id |-> id, route1Id |-> route1Id, route2Id |-> route2Id, status |-> "PENDING",
     acceptedByRoute1At |-> Null, acceptedByRoute2At |-> Null,
     expiresAt |-> createdAt + OpportunityLifetime]

\* The route a delivery is on, and the two routes of an opportunity, before
\* any request: delivery d on route ..., 2, 1, 2, 1 (so that every route has
\* deliveries), opportunity o between route o and the next route.
RouteOfDelivery(d) == ((NumDeliveries - d) % NumTrucks) + 1
NextRoute(r) == (r % NumTrucks) + 1

\* Every truck is on the road with one ACTIVE route (route t on truck t), the
\* deliveries are spread over the routes, and detection has recorded
\* opportunities between routes of different trucks.
InitLedger ==
    /\ trucks = [t \in TruckIds |->
                    [maxWeight |-> Null, maxVolume |-> Null, courierCompanyId |-> 1,
                     isAvailable |-> FALSE, registrationStatus |-> "APPROVED",
                     ownerId |-> OwnerOf(t)]]
    /\ routes = [t \in TruckIds |->
                    [id |-> t, courierCompanyId |-> 1, truckId |-> t,
                     driverId |-> OwnerOf(t), totalPackages |-> 0, totalWeight |-> 0,
                     totalVolume |-> 0, status |-> "ACTIVE"]]
    /\ \E w \in [DriverIds -> Workloads] :
           drivers = [d \in DriverIds |->
                         [totalDistanceKm |-> w[d][1], totalHoursWorked |-> w[d][2]]]
    /\ deliveries = [d \in DeliveryIds |->
                        [cargoWeight |-> 2, cargoVolumeLtrs |-> 1,
                         timeWindowStart |-> NumDeliveries + 1 - d,
                         courierCompanyId |-> 1, status |-> "ALLOCATED",
                         truckId |-> RouteOfDelivery(d),
                         driverId |-> OwnerOf(RouteOfDelivery(d)),
                         optimizedRouteId |-> RouteOfDelivery(d)]]
    /\ opps = [o \in OppIds |-> NewOpportunity(o, NextRoute(o - 1), NextRoute(o), 0)]
    /\ hubs = <<>>
    /\ now = 0
    /\ calls = <<>>
    /\ pre = Store
    /\ res = NoResponse

\* The status acceptSynergy writes for the side that accepts (lines 589-597);
\* side is 1 for route1Id === routeId, 2 for route2Id === routeId.
AcceptedStatusForgetful(status, side) ==
    IF side = 1 THEN "ACCEPTED_BY_ROUTE1" ELSE "ACCEPTED_BY_ROUTE2"

\* (a status that does not wait for the other side)
AcceptedStatusEager(status, side) == "BOTH_ACCEPTED"

AcceptedStatus(status, side) ==
    IF side = 1
    THEN (IF status = "ACCEPTED_BY_ROUTE2" THEN "BOTH_ACCEPTED" ELSE "ACCEPTED_BY_ROUTE1")
    ELSE (IF status = "ACCEPTED_BY_ROUTE1" THEN "BOTH_ACCEPTED" ELSE "ACCEPTED_BY_ROUTE2")

\* The side routeId names: 1 for route1Id === routeId, 2 for route2Id ===
\* routeId, 0 for neither (lines 589, 592, 595).
MatchedSideLenient(opportunity, routeId) ==
    IF opportunity.route2Id = routeId THEN 2 ELSE 1

MatchedSide(opportunity, routeId) ==
    IF opportunity.route1Id = routeId THEN 1
    ELSE IF opportunity.route2Id = routeId THEN 2
    ELSE 0

LedgerResponse(op, code, opportunityId, routeId, events) ==
    [op |-> op, code |-> code, opportunityId |-> opportunityId, routeId |-> routeId,
     events |-> events]

\* acceptSynergy, lines 576-611.  fails: the update throws.
acceptSynergy(opportunityId, routeId, fails) ==
    /\ pre' = Store
    /\ UNCHANGED <<deliveries, trucks, routes, drivers, hubs, calls>>
    /\ IF opportunityId \notin DOMAIN opps
       THEN /\ ~fails
            /\ res' = LedgerResponse("accept", 404, opportunityId, routeId, <<>>)
            /\ UNCHANGED <<opps, now>>
       ELSE LET opportunity == opps[opportunityId]
                side == MatchedSide(opportunity, routeId)
            IN IF side = 0
               THEN /\ ~fails
                    /\ res' = LedgerResponse("accept", 400, opportunityId, routeId, <<>>)
                    /\ UNCHANGED <<opps, now>>
               ELSE /\ now < MaxStamps
                    /\ now' = now + 1
                    /\ IF fails
                       THEN /\ res' = LedgerResponse("accept", 500, opportunityId,
                                                     routeId, <<>>)
                            /\ UNCHANGED opps
                       ELSE /\ opps' = [opps EXCEPT ![opportunityId] =
                                   IF side = 1
                                   THEN [@ EXCEPT
                                            !.status = AcceptedStatus(opportunity.status, 1),
                                            !.acceptedByRoute1At = now']
                                   ELSE [@ EXCEPT
                                            !.status = AcceptedStatus(opportunity.status, 2),
                                            !.acceptedByRoute2At = now']]
                            /\ res' = LedgerResponse("accept", 200, opportunityId,
                                                     routeId, <<>>)

\* workload = (totalDistanceKm || 0) + (totalHoursWorked || 0)
Workload(d) == OrZero(drivers[d].totalDistanceKm) + OrZero(drivers[d].totalHoursWorked)

\* The driver relay rule of handleHandshake, lines 494-511.
RelayRuleTieToDriver2(opportunity) ==
    LET truck1 == routes[opportunity.route1Id].truckId
        truck2 == routes[opportunity.route2Id].truckId
        driver1 == trucks[truck1].ownerId
        driver2 == trucks[truck2].ownerId
    IN IF Workload(driver1) > Workload(driver2)
       THEN [longHaulDriver |-> driver1, shortHaulDriver |-> driver2,
             masterTruckId |-> truck1]
       ELSE [longHaulDriver |-> driver2, shortHaulDriver |-> driver1,
             masterTruckId |-> truck2]

RelayRule(opportunity) ==
    LET truck1 == routes[opportunity.route1Id].truckId
        truck2 == routes[opportunity.route2Id].truckId
        driver1 == trucks[truck1].ownerId
        driver2 == trucks[truck2].ownerId
    IN IF Workload(driver1) >= Workload(driver2)
       THEN [longHaulDriver |-> driver1, shortHaulDriver |-> driver2,
             masterTruckId |-> truck1]
       ELSE [longHaulDriver |-> driver2, shortHaulDriver |-> driver1,
             masterTruckId |-> truck2]

\* delivery.updateMany of the handshake, lines 521-528: the deliveries whose
\* optimizedRouteId is the opportunity's route2Id go to the master truck and
\* the long-haul driver.
TransferDeliveriesKeepDriver(opportunity, relay) ==
    [d \in DOMAIN deliveries |->
        IF deliveries[d].optimizedRouteId = opportunity.route2Id
        THEN [deliveries[d] EXCEPT !.truckId = relay.masterTruckId,
                                   !.status = "ABSORPTION_TRANSFERRED"]
        ELSE deliveries[d]]

\* (a transfer that also moves the deliveries onto route1)
TransferDeliveriesRebindRoute(opportunity, relay) ==
    [d \in DOMAIN deliveries |->
        IF deliveries[d].optimizedRouteId = opportunity.route2Id
        THEN [deliveries[d] EXCEPT !.truckId = relay.masterTruckId,
                                   !.driverId = relay.longHaulDriver,
                                   !.optimizedRouteId = opportunity.route1Id,
                                   !.status = "ABSORPTION_TRANSFERRED"]
        ELSE deliveries[d]]

TransferDeliveries(opportunity, relay) ==
    [d \in DOMAIN deliveries |->
        IF deliveries[d].optimizedRouteId = opportunity.route2Id
        THEN [deliveries[d] EXCEPT !.truckId = relay.masterTruckId,
                                   !.driverId = relay.longHaulDriver,
                                   !.status = "ABSORPTION_TRANSFERRED"]
        ELSE deliveries[d]]

\* Lines 490-492: no such opportunity.
HandshakeNotFound(opportunityId, failAt) ==
    /\ failAt = "none"
    /\ res' = LedgerResponse("handshake", 404, opportunityId, Null, <<>>)
    /\ UNCHANGED <<opps, deliveries>>

\* The events a handshake has published when it returns (lines 514-535):
\* io.emit comes after the awaited transaction.
HandshakeEventsBeforeCommit(opportunityId, relay, failAt) ==
    IF failAt # "emit"
    THEN <<[event |-> "synergy:absorption_completed",
            opportunityId |-> opportunityId,
            assignedDriver |-> relay.longHaulDriver]>>
    ELSE <<>>

HandshakeEvents(opportunityId, relay, failAt) ==
    IF failAt = "none"
    THEN <<[event |-> "synergy:absorption_completed",
            opportunityId |-> opportunityId,
            assignedDriver |-> relay.longHaulDriver]>>
    ELSE <<>>

\* (a handshake that turns away an opportunity past its expiry)
HandshakeFoundExpiring(opportunityId, failAt) ==
    LET opportunity == opps[opportunityId]
        relay == RelayRule(opportunity)
    IN IF now > opportunity.expiresAt
       THEN /\ res' = LedgerResponse("handshake", IF failAt = "none" THEN 410 ELSE 500,
                                     opportunityId, Null, <<>>)
            /\ opps' = [opps EXCEPT ![opportunityId].status = "EXPIRED"]
            /\ UNCHANGED deliveries
       ELSE /\ res' = LedgerResponse("handshake", IF failAt = "none" THEN 200 ELSE 500,
                                     opportunityId, Null,
                                     HandshakeEvents(opportunityId, relay, failAt))
            /\ IF failAt = "transaction"
               THEN UNCHANGED <<opps, deliveries>>
               ELSE /\ opps' = [opps EXCEPT ![opportunityId].status = "COMPLETED"]
                    /\ deliveries' = TransferDeliveries(opportunity, relay)

\* Lines 494-549: relay rule, transaction, event and response.  failAt:
\* "transaction", the transaction throws and nothing of it is kept; "emit",
\* io.emit throws after the transaction; both end in the catch, which
\* answers 500.
HandshakeFound(opportunityId, failAt) ==
    LET opportunity == opps[opportunityId]
        relay == RelayRule(opportunity)
    IN /\ res' = LedgerResponse("handshake", IF failAt = "none" THEN 200 ELSE 500,
                                opportunityId, Null,
                                HandshakeEvents(opportunityId, relay, failAt))
       /\ IF failAt = "transaction"
          THEN UNCHANGED <<opps, deliveries>>
          ELSE /\ opps' = [opps EXCEPT ![opportunityId].status = "COMPLETED"]
               /\ deliveries' = TransferDeliveries(opportunity, relay)

\* (a handshake that waits for both sides to accept)
handleHandshakeGated(opportunityId, failAt) ==
    /\ pre' = Store
    /\ UNCHANGED <<trucks, routes, drivers, hubs, calls, now>>
    /\ IF opportunityId \notin DOMAIN opps
       THEN HandshakeNotFound(opportunityId, failAt)
       ELSE IF opps[opportunityId].status # "BOTH_ACCEPTED"
            THEN /\ failAt = "none"
                 /\ res' = LedgerResponse("handshake", 409, opportunityId, Null, <<>>)
                 /\ UNCHANGED <<opps, deliveries>>
            ELSE HandshakeFound(opportunityId, failAt)

\* handleHandshake, lines 476-550.
handleHandshake(opportunityId, failAt) ==
    /\ pre' = Store
    /\ UNCHANGED <<trucks, routes, drivers, hubs, calls, now>>
    /\ IF opportunityId \notin DOMAIN opps
       THEN HandshakeNotFound(opportunityId, failAt)
       ELSE HandshakeFound(opportunityId, failAt)

NextLedger ==
    \/ \E opportunityId \in RequestedOppIds, routeId \in RequestedRouteIds,
          fails \in BOOLEAN : acceptSynergy(opportunityId, routeId, fails)
    \/ \E opportunityId \in RequestedOppIds,
          failAt \in {"none", "transaction", "emit"} :
           handleHandshake(opportunityId, failAt)

SpecLedger == InitLedger /\ [][NextLedger]_vars

----------------------------------------------------------------------------
(* acceptSynergy, requests running concurrently: a request gives way to the  *)
(* others at its two awaits (findUnique, update).                            *)

IdleAccept == [pc |-> "idle", opportunityId |-> Null, routeId |-> Null,
               side |-> Null, seen |-> "", stamp |-> Null, code |-> Null]

InitAcceptConcurrent ==
    /\ trucks = [t \in TruckIds |->
                    [maxWeight |-> Null, maxVolume |-> Null, courierCompanyId |-> 1,
                     isAvailable |-> FALSE, registrationStatus |-> "APPROVED",
                     ownerId |-> OwnerOf(t)]]
    /\ routes = [t \in TruckIds |->
                    [id |-> t, courierCompanyId |-> 1, truckId |-> t,
                     driverId |-> OwnerOf(t), totalPackages |-> 0, totalWeight |-> 0,
                     totalVolume |-> 0, status |-> "ACTIVE"]]
    /\ drivers = [d \in DriverIds |->
                     [totalDistanceKm |-> Null, totalHoursWorked |-> Null]]
    /\ deliveries = <<>>
    /\ opps = [o \in OppIds |-> NewOpportunity(o, NextRoute(o - 1), NextRoute(o), 0)]
    /\ hubs = <<>>
    /\ now = 0
    /\ calls = [c \in CallIds |-> IdleAccept]
    /\ pre = Store
    /\ res = NoResponse

\* Lines 578-597: the request reads the opportunity and builds updateData from
\* what it read; new Date() is taken here, before the update is awaited.
AcceptRead(c, opportunityId, routeId) ==
    /\ calls[c].pc = "idle"
    /\ UNCHANGED <<deliveries, trucks, routes, drivers, hubs, opps, pre>>
    /\ now' = now + 1
    /\ IF opportunityId \notin DOMAIN opps
       THEN /\ calls' = [calls EXCEPT ![c] =
                   [@ EXCEPT !.pc = "done", !.opportunityId = opportunityId,
                             !.routeId = routeId, !.code = 404]]
            /\ res' = LedgerResponse("accept", 404, opportunityId, routeId, <<>>)
       ELSE LET opportunity == opps[opportunityId]
                side == MatchedSide(opportunity, routeId)
            IN IF side = 0
               THEN /\ calls' = [calls EXCEPT ![c] =
                           [@ EXCEPT !.pc = "done", !.opportunityId = opportunityId,
                                     !.routeId = routeId, !.code = 400]]
                    /\ res' = LedgerResponse("accept", 400, opportunityId, routeId,
                                             <<>>)
               ELSE /\ calls' = [calls EXCEPT ![c] =
                           [pc |-> "read", opportunityId |-> opportunityId,
                            routeId |-> routeId, side |-> side,
                            seen |-> opportunity.status, stamp |-> now',
                            code |-> Null]]
                    /\ UNCHANGED res

\* Lines 599-610: the update writes the status computed from the earlier read
\* and the stamp of the accepting side; fails: the update throws.
AcceptWrite(c, fails) ==
    /\ calls[c].pc = "read"
    /\ UNCHANGED <<deliveries, trucks, routes, drivers, hubs, now, pre>>
    /\ LET call == calls[c]
       IN IF fails
          THEN /\ UNCHANGED opps
               /\ calls' = [calls EXCEPT ![c].pc = "done", ![c].code = 500]
               /\ res' = LedgerResponse("accept", 500, call.opportunityId,
                                        call.routeId, <<>>)
          ELSE /\ opps' = [opps EXCEPT ![call.opportunityId] =
                      IF call.side = 1
                      THEN [@ EXCEPT !.status = AcceptedStatus(call.seen, 1),
                                     !.acceptedByRoute1At = call.stamp]
                      ELSE [@ EXCEPT !.status = AcceptedStatus(call.seen, 2),
                                     !.acceptedByRoute2At = call.stamp]]
               /\ calls' = [calls EXCEPT ![c].pc = "done", ![c].code = 200]
               /\ res' = LedgerResponse("accept", 200, call.opportunityId,
                                        call.routeId, <<>>)

NextAcceptConcurrent ==
    \/ \E c \in CallIds, opportunityId \in RequestedOppIds,
          routeId \in RequestedRouteIds : AcceptRead(c, opportunityId, routeId)
    \/ \E c \in CallIds, fails \in BOOLEAN : AcceptWrite(c, fails)

SpecAcceptConcurrent == InitAcceptConcurrent /\ [][NextAcceptConcurrent]_vars

----------------------------------------------------------------------------
(* detectAbsorptionOpportunity, lines 356-470 *)

MaxDetects == 2
GeofenceKm == 5

\* The fleet on the road; an id beyond it names no truck.
FleetIds == {1, 2, 3}
RequestedTruckIds == FleetIds \cup {Cardinality(FleetIds) + 1}

\* Places are points of one road, named by their kilometre; the haversine
\* distance of two of them is the length of road between them.
DetectPositions == {0, 1}
Distance(p, q) == IF p >= q THEN p - q ELSE q - p

\* Trucks on the road: where they are, whether their route is ACTIVE, their
\* limits and their load (Null: the column is empty).
FleetShapes ==
    {[position |-> 0, active |-> TRUE, maxWeight |-> 10, currentWeight |-> Null,
      maxVolume |-> 10, currentVolume |-> Null],
     [position |-> 4, active |-> TRUE, maxWeight |-> 10, currentWeight |-> 8,
      maxVolume |-> 10, currentVolume |-> 4],
     [position |-> 5, active |-> TRUE, maxWeight |-> 10, currentWeight |-> 2,
      maxVolume |-> 10, currentVolume |-> 8],
     [position |-> 4, active |-> FALSE, maxWeight |-> Null, currentWeight |-> Null,
      maxVolume |-> Null, currentVolume |-> Null]}

HubPositions == {3, 5}

InitDetect ==
    /\ \E shape \in [FleetIds -> FleetShapes] :
           /\ trucks = [t \in FleetIds |->
                           [position |-> shape[t].position,
                            maxWeight |-> shape[t].maxWeight,
                            currentWeight |-> shape[t].currentWeight,
                            maxVolume |-> shape[t].maxVolume,
                            currentVolume |-> shape[t].currentVolume,
                            ownerId |-> t]]
           /\ routes = [t \in FleetIds |->
                           [id |-> t, truckId |-> t, driverId |-> t,
                            status |-> IF shape[t].active THEN "ACTIVE"
                                       ELSE "COMPLETED"]]
    /\ \E h \in HubPositions : hubs = <<[id |-> 1, position |-> h]>>
    /\ deliveries = <<>>
    /\ drivers = <<>>
    /\ opps = <<>>
    /\ now = 0
    /\ calls = <<>>
    /\ pre = Store
    /\ res = NoResponse

\* include: { optimizedRoutes: { where: { status: 'ACTIVE' } } }, in id order.
ActiveRoutes(st, t) ==
    {r \in DOMAIN st.routes :
        st.routes[r].truckId = t /\ st.routes[r].status = "ACTIVE"}

FirstActiveRoute(st, t) ==
    CHOOSE r \in ActiveRoutes(st, t) : \A q \in ActiveRoutes(st, t) : r <= q

\* The raw query of lines 374-383: the other trucks nearer than the geofence.
NearbyTrucksWithSelf(st, truckId, position) ==
    {t \in DOMAIN st.trucks :
        Distance(position, st.trucks[t].position) < GeofenceKm}

NearbyTrucksInclusive(st, truckId, position) ==
    {t \in DOMAIN st.trucks :
        t # truckId /\ Distance(position, st.trucks[t].position) <= GeofenceKm}

NearbyTrucks(st, truckId, position) ==
    {t \in DOMAIN st.trucks :
        t # truckId /\ Distance(position, st.trucks[t].position) < GeofenceKm}

\* The raw query of lines 397-406: the hubs nearer than 5 km.
NearbyHubs(position) ==
    {h \in DOMAIN hubs : Distance(position, hubs[h].position) < GeofenceKm}

\* Lines 413-417: can A absorb B's load?
CanAbsorbWeightOnly(truckA, truckB) ==
    OrZero(truckA.maxWeight) - OrZero(truckA.currentWeight) >= OrZero(truckB.currentWeight)

CanAbsorb(truckA, truckB) ==
    /\ OrZero(truckA.maxWeight) - OrZero(truckA.currentWeight)
           >= OrZero(truckB.currentWeight)
    /\ OrZero(truckA.maxVolume) - OrZero(truckA.currentVolume)
           >= OrZero(truckB.currentVolume)

\* The checks of one turn of the loop, lines 386-418.
Feasible(st, truckId, candidate, position) ==
    /\ ActiveRoutes(st, candidate) # {}
    /\ NearbyHubs(position) # {}
    /\ CanAbsorb(st.trucks[truckId], st.trucks[candidate])

\* The loop of lines 385-463 from place k of the rows the query returned: the
\* place of the candidate an opportunity is created for, 0 when there is none.
FirstMatchStopAtFailure(st, truckId, nearbyTrucks, position, k) ==
    IF k > Len(nearbyTrucks) THEN 0
    ELSE IF Feasible(st, truckId, nearbyTrucks[k], position) THEN k
    ELSE 0

RECURSIVE FirstMatch(_, _, _, _, _)
FirstMatch(st, truckId, nearbyTrucks, position, k) ==
    IF k > Len(nearbyTrucks) THEN 0
    ELSE IF Feasible(st, truckId, nearbyTrucks[k], position) THEN k
    ELSE FirstMatch(st, truckId, nearbyTrucks, position, k + 1)

DetectResponse(truckId, position, nearbyTrucks, opportunity, events, error) ==
    [op |-> "detect", code |-> Null, truckId |-> truckId, position |-> position,
     nearbyTrucks |-> nearbyTrucks, opportunity |-> opportunity, events |-> events,
     error |-> error]

\* The try block of lines 357-465 on store st.  failAt: "query", a query or
\* the create throws; "emit", io.emit throws after the create.  Each outcome
\* is the opportunity table it leaves, the rows the first query returned, the
\* opportunity it was about to return, the events published, and whether it
\* threw.
DetectTry(st, truckId, position, failAt) ==
    IF failAt = "query"
    THEN {[opps |-> st.opps, nearbyTrucks |-> <<>>, opportunity |-> Null,
           events |-> <<>>, thrown |-> TRUE]}
    ELSE IF truckId \notin DOMAIN st.trucks \/ ActiveRoutes(st, truckId) = {}
    THEN {out \in {[opps |-> st.opps, nearbyTrucks |-> <<>>, opportunity |-> Null,
                    events |-> <<>>, thrown |-> FALSE]} : failAt = "none"}
    ELSE {LET k == FirstMatch(st, truckId, nearbyTrucks, position, 1)
              id == Len(st.opps) + 1
          IN IF k = 0
             THEN [opps |-> st.opps, nearbyTrucks |-> nearbyTrucks,
                   opportunity |-> Null, events |-> <<>>, thrown |-> FALSE]
             ELSE [opps |-> Append(st.opps,
                                NewOpportunity(id, FirstActiveRoute(st, truckId),
                                    FirstActiveRoute(st, nearbyTrucks[k]), now + 1)),
                   nearbyTrucks |-> nearbyTrucks,
                   opportunity |-> id,
                   events |-> IF failAt = "emit" THEN <<>>
                              ELSE <<[event |-> "synergy:absorption_opportunity",
                                      opportunityId |-> id,
                                      truckA |-> truckId,
                                      truckB |-> nearbyTrucks[k],
                                      hub |-> CHOOSE h \in NearbyHubs(position) : TRUE]>>,
                   thrown |-> failAt = "emit"]
          : nearbyTrucks \in
                {order \in Orderings(NearbyTrucks(st, truckId, position)) :
                    failAt = "emit" =>
                        FirstMatch(st, truckId, order, position, 1) # 0}}

\* The catch of lines 466-469: what was thrown is logged and null returned.
DetectCatchRethrow(out) ==
    [opps |-> out.opps, nearbyTrucks |-> out.nearbyTrucks,
     opportunity |-> IF out.thrown THEN Null ELSE out.opportunity,
     events |-> out.events, error |-> out.thrown, raised |-> out.thrown]

DetectCatch(out) ==
    [opps |-> out.opps, nearbyTrucks |-> out.nearbyTrucks,
     opportunity |-> IF out.thrown THEN Null ELSE out.opportunity,
     events |-> out.events, error |-> out.thrown, raised |-> FALSE]

\* detectAbsorptionOpportunity(truckId, lat, lng, io).
detectAbsorptionOpportunity(truckId, position, failAt) ==
    /\ now < MaxDetects
    /\ now' = now + 1
    /\ pre' = Store
    /\ UNCHANGED <<deliveries, trucks, routes, drivers, hubs, calls>>
    /\ \E out \in DetectTry(Store, truckId, position, failAt) :
           LET ret == DetectCatch(out)
           IN /\ opps' = ret.opps
              /\ res' = DetectResponse(truckId, position, ret.nearbyTrucks,
                                       ret.opportunity, ret.events, ret.error)

SearchResponse(code, truckId, failAt, opportunity, events, error) ==
    [op |-> "search", code |-> code, truckId |-> truckId, failAt |-> failAt,
     opportunity |-> opportunity, events |-> events, error |-> error]

\* searchSynergy of routeController.js, lines 555-571: the caller of detect,
\* at the truck's own place.  failAt "lookup": its own findUnique throws.
searchSynergyLegacy(truckId, failAt) ==
    /\ now < MaxDetects
    /\ now' = now + 1
    /\ pre' = Store
    /\ UNCHANGED <<deliveries, trucks, routes, drivers, hubs, calls>>
    /\ IF failAt = "lookup"
       THEN /\ res' = SearchResponse(500, truckId, failAt, Null, <<>>, FALSE)
            /\ UNCHANGED opps
       ELSE IF truckId \notin DOMAIN trucks
       THEN /\ failAt = "none"
            /\ res' = SearchResponse(404, truckId, failAt, Null, <<>>, FALSE)
            /\ UNCHANGED opps
       ELSE \E out \in DetectTry(Store, truckId, trucks[truckId].position, failAt) :
               LET ret == DetectCatch(out)
               IN /\ opps' = ret.opps
                  /\ res' = SearchResponse(IF ret.raised THEN 500 ELSE 200, truckId,
                                failAt, ret.opportunity, ret.events, ret.error)

NextDetect ==
    \/ \E truckId \in RequestedTruckIds, position \in DetectPositions,
          failAt \in {"none", "query", "emit"} :
           detectAbsorptionOpportunity(truckId, position, failAt)
    \/ \E truckId \in RequestedTruckIds,
          failAt \in {"none", "lookup", "query", "emit"} :
           searchSynergyLegacy(truckId, failAt)

SpecDetect == InitDetect /\ [][NextDetect]_vars

----------------------------------------------------------------------------
(* Detection, acceptance and handshake on one store *)

\* Truck 1 is empty at kilometre 0, truck 2 loaded at kilometre 4, both on
\* ACTIVE routes that carry the deliveries; truck 3 has finished its route;
\* a hub stands at kilometre 3.  Driver 1 has a workload of 1, driver 2 any.
InitSynergy ==
    /\ trucks = [t \in FleetIds |->
                    [position |-> IF t = 1 THEN 0 ELSE 4,
                     maxWeight |-> IF t = 3 THEN Null ELSE 10,
                     currentWeight |-> IF t = 2 THEN 8 ELSE Null,
                     maxVolume |-> IF t = 3 THEN Null ELSE 10,
                     currentVolume |-> IF t = 2 THEN 4 ELSE Null,
                     ownerId |-> t]]
    /\ routes = [t \in FleetIds |->
                    [id |-> t, truckId |-> t, driverId |-> t,
                     status |-> IF t = 3 THEN "COMPLETED" ELSE "ACTIVE"]]
    /\ \E w \in Workloads :
           drivers = [d \in FleetIds |->
                         [totalDistanceKm |-> IF d = 2 THEN w[1] ELSE Null,
                          totalHoursWorked |-> IF d = 2 THEN w[2]
                                               ELSE IF d = 1 THEN 1 ELSE Null]]
    /\ deliveries = [d \in DeliveryIds |->
                        [cargoWeight |-> 2, cargoVolumeLtrs |-> 1,
                         timeWindowStart |-> NumDeliveries + 1 - d,
                         courierCompanyId |-> 1, status |-> "ALLOCATED",
                         truckId |-> ((d - 1) % 2) + 1,
                         driverId |-> ((d - 1) % 2) + 1,
                         optimizedRouteId |-> ((d - 1) % 2) + 1]]
    /\ hubs = <<[id |-> 1, position |-> 3]>>
    /\ opps = <<>>
    /\ now = 0
    /\ calls = <<>>
    /\ pre = Store
    /\ res = NoResponse

NextSynergy == NextDetect \/ NextLedger

SpecSynergy == InitSynergy /\ [][NextSynergy]_vars

----------------------------------------------------------------------------
(* Cargo compatibility, synergyController.js lines 3-37 *)

\* The keys of CARGO_COMPATIBILITY.
TableTypes ==
    {"FOOD", "PHARMA", "ELECTRONICS", "CHEMICALS", "INDUSTRIAL", "FRAGILE", "CLOTHING"}

\* Cargo types as they may arrive: "" is a missing type, some are written in
\* lower or mixed case, one is in no entry of the table.
CargoTypes == TableTypes \cup {"", "food", "Pharma", "clothing", "TEXTILE"}

\* String.prototype.toUpperCase on CargoTypes.
ToUpperCase(type) ==
    CASE type = "food" -> "FOOD"
      [] type = "Pharma" -> "PHARMA"
      [] type = "clothing" -> "CLOTHING"
      [] OTHER -> type

\* The table of lines 3-11; a type without an entry has nothing listed.
CARGO_COMPATIBILITY_OneWay(type) ==
    CASE type = "FOOD" -> {"PHARMA", "ELECTRONICS"}
      [] type = "PHARMA" -> {"FOOD", "ELECTRONICS"}
      [] type = "ELECTRONICS" -> {"FOOD", "PHARMA", "FRAGILE"}
      [] type = "CHEMICALS" -> {"INDUSTRIAL"}
      [] type = "INDUSTRIAL" -> {"CHEMICALS"}
      [] type = "FRAGILE" -> {"ELECTRONICS", "CLOTHING"}
      [] OTHER -> {}

CARGO_COMPATIBILITY(type) ==
    CASE type = "FOOD" -> {"PHARMA", "ELECTRONICS"}
      [] type = "PHARMA" -> {"FOOD", "ELECTRONICS"}
      [] type = "ELECTRONICS" -> {"FOOD", "PHARMA", "FRAGILE"}
      [] type = "CHEMICALS" -> {"INDUSTRIAL"}
      [] type = "INDUSTRIAL" -> {"CHEMICALS"}
      [] type = "FRAGILE" -> {"ELECTRONICS", "CLOTHING"}
      [] type = "CLOTHING" -> {"FRAGILE"}
      [] OTHER -> {}

\* areCompatible, lines 31-37: the types are compared as given, then type2 in
\* upper case is looked up in the entry of type1 in upper case.
areCompatible(type1, type2) ==
    IF type1 = "" \/ type2 = "" THEN TRUE
    ELSE IF type1 = type2 THEN TRUE
    ELSE ToUpperCase(type2) \in CARGO_COMPATIBILITY(ToUpperCase(type1))

InitCargo ==
    /\ deliveries = <<>>
    /\ trucks = <<>>
    /\ routes = <<>>
    /\ drivers = <<>>
    /\ opps = <<>>
    /\ hubs = <<>>
    /\ now = 0
    /\ calls = <<>>
    /\ pre = Store
    /\ res = NoResponse

\* A call of areCompatible.
CheckCompatibility(type1, type2) ==
    /\ res' = [op |-> "areCompatible", code |-> Null, type1 |-> type1,
               type2 |-> type2, result |-> areCompatible(type1, type2)]
    /\ UNCHANGED <<deliveries, trucks, routes, drivers, opps, hubs, now, calls, pre>>

NextCargo == \E type1 \in CargoTypes, type2 \in CargoTypes : CheckCompatibility(type1, type2)

SpecCargo == InitCargo /\ [][NextCargo]_vars

----------------------------------------------------------------------------
(* Advisory search and merge, synergyController.js lines 42-212 *)

SynergyGeofenceKm == 10

\* A truck with the delivery it carries and its owner's record: where it is,
\* its capacity, the delivery's status, weight, cargo type and drop location,
\* the owner's <<totalDistanceKm, totalHoursWorked>>.
AdvisoryShapes ==
    {[position |-> Null, capacity |-> 10, status |-> "IN_TRANSIT", cargoWeight |-> 2,
      cargoType |-> "FOOD", dropLocation |-> "X", workload |-> <<Null, 1>>],
     [position |-> 10, capacity |-> 10, status |-> "IN_TRANSIT", cargoWeight |-> 8,
      cargoType |-> "PHARMA", dropLocation |-> "X", workload |-> <<2, Null>>],
     [position |-> 11, capacity |-> Null, status |-> "IN_TRANSIT", cargoWeight |-> 9,
      cargoType |-> "CHEMICALS", dropLocation |-> "Y", workload |-> <<1, 1>>],
     [position |-> Null, capacity |-> 10, status |-> "COMPLETED", cargoWeight |-> 2,
      cargoType |-> "FOOD", dropLocation |-> "X", workload |-> <<Null, Null>>]}

\* Truck t is owned by driver t and carries delivery t.
InitAdvisory ==
    /\ \E shape \in [FleetIds -> AdvisoryShapes] :
           /\ trucks = [t \in FleetIds |->
                           [position |-> shape[t].position,
                            capacity |-> shape[t].capacity, ownerId |-> t]]
           /\ deliveries = [d \in FleetIds |->
                               [truckId |-> d, driverId |-> d,
                                status |-> shape[d].status,
                                cargoWeight |-> shape[d].cargoWeight,
                                cargoType |-> shape[d].cargoType,
                                dropLocation |-> shape[d].dropLocation]]
           /\ drivers = [d \in FleetIds |->
                            [totalDistanceKm |-> shape[d].workload[1],
                             totalHoursWorked |-> shape[d].workload[2]]]
    /\ routes = <<>>
    /\ opps = <<>>
    /\ hubs = <<>>
    /\ now = 0
    /\ calls = <<>>
    /\ pre = Store
    /\ res = NoResponse

\* include: { deliveries: { where: { status: { notIn: [...] } } } }
ActiveDeliveries(t) ==
    {d \in DOMAIN deliveries :
        deliveries[d].truckId = t /\ deliveries[d].status \notin {"COMPLETED", "CANCELLED"}}

\* deliveries[0], the rows taken in id order.
FirstActiveDelivery(t) ==
    CHOOSE d \in ActiveDeliveries(t) : \A e \in ActiveDeliveries(t) : d <= e

\* Constraint 1, lines 89-93.
GeofenceMetStrict(searchingTruck, candidate) ==
    Distance(OrZero(searchingTruck.position), OrZero(candidate.position))
        < SynergyGeofenceKm

GeofenceMet(searchingTruck, candidate) ==
    Distance(OrZero(searchingTruck.position), OrZero(candidate.position))
        <= SynergyGeofenceKm

\* Constraint 2, lines 98-99.
CapacityMet(searchingTruck, activeDelivery, candidateDelivery) ==
    OrZero(searchingTruck.capacity) - OrZero(activeDelivery.cargoWeight)
        >= OrZero(candidateDelivery.cargoWeight)

\* The result of lines 83-125 for one candidate truck.
SynergyResult(truckId, candidateId) ==
    LET activeDelivery == deliveries[FirstActiveDelivery(truckId)]
        candidateDelivery == deliveries[FirstActiveDelivery(candidateId)]
        geofenceMet == GeofenceMet(trucks[truckId], trucks[candidateId])
        capacityMet == CapacityMet(trucks[truckId], activeDelivery, candidateDelivery)
        safetyMet == areCompatible(activeDelivery.cargoType, candidateDelivery.cargoType)
        pathMet == activeDelivery.dropLocation = candidateDelivery.dropLocation
    IN [id |-> candidateId,
        constraints |-> [geofence |-> geofenceMet, capacity |-> capacityMet,
                         safety |-> safetyMet, path |-> pathMet],
        highProbability |-> geofenceMet /\ capacityMet /\ safetyMet /\ pathMet]

\* Lines 68-126: the results of the candidates that meet the geofence.
SynergyResults(truckId) ==
    LET candidates == {t \in DOMAIN trucks : t # truckId /\ ActiveDeliveries(t) # {}}
    IN {r \in {SynergyResult(truckId, c) : c \in candidates} : r.constraints.geofence}

AdvisoryResponse(op, code, truckId, candidateTruckId, data, events, assignedDriver) ==
    [op |-> op, code |-> code, truckId |-> truckId,
     candidateTruckId |-> candidateTruckId, data |-> data, events |-> events,
     assignedDriver |-> assignedDriver]

\* searchSynergy of synergyController.js, lines 42-148.  fails: a query or
\* io.emit throws.
searchSynergy(truckId, fails) ==
    /\ now < MaxRequests
    /\ now' = now + 1
    /\ pre' = Store
    /\ UNCHANGED <<deliveries, trucks, routes, drivers, opps, hubs, calls>>
    /\ IF fails
       THEN res' = AdvisoryResponse("advise", 500, truckId, Null, {}, <<>>, Null)
       ELSE IF truckId \notin DOMAIN trucks
       THEN res' = AdvisoryResponse("advise", 404, truckId, Null, {}, <<>>, Null)
       ELSE IF ActiveDeliveries(truckId) = {}
       THEN res' = AdvisoryResponse("advise", 400, truckId, Null, {}, <<>>, Null)
       ELSE LET results == SynergyResults(truckId)
                highProbMatches == {r \in results : r.highProbability}
            IN res' = AdvisoryResponse("advise", 200, truckId, Null, results,
                          IF highProbMatches # {}
                          THEN <<[event |-> "synergy:high-probability-match",
                                  searchingTruck |-> truckId,
                                  matches |-> highProbMatches]>>
                          ELSE <<>>,
                          Null)

\* score = (totalDistanceKm || 0) + (totalHoursWorked || 0), lines 185-186.
Score(d) == OrZero(drivers[d].totalDistanceKm) + OrZero(drivers[d].totalHoursWorked)

\* Lines 178-188: the owners of the two trucks sorted by falling score, the
\* first taken; with equal scores the order the query returned them decides.
OptimalDrivers(searchingTruck, candidateTruck) ==
    LET owners == {searchingTruck.ownerId, candidateTruck.ownerId}
    IN {d \in owners : \A e \in owners : Score(d) >= Score(e)}

\* prisma.delivery.update of lines 193-199.
MergeUpdateOntoDriversTruck(delivery, optimalDriver, searchingTruckId) ==
    [delivery EXCEPT !.driverId = optimalDriver,
                     !.truckId = CHOOSE t \in DOMAIN trucks :
                                     trucks[t].ownerId = optimalDriver]

MergeUpdate(delivery, optimalDriver, searchingTruckId) ==
    [delivery EXCEPT !.driverId = optimalDriver, !.truckId = searchingTruckId]

\* confirmMerge, lines 153-212.  fails: a query or the transaction throws.  A
\* candidate without an active delivery makes deliveryToMerge.id throw.
confirmMerge(searchingTruckId, candidateTruckId, fails) ==
    /\ now < MaxRequests
    /\ now' = now + 1
    /\ pre' = Store
    /\ UNCHANGED <<trucks, routes, drivers, opps, hubs, calls>>
    /\ IF fails
       THEN /\ res' = AdvisoryResponse("merge", 500, searchingTruckId,
                                       candidateTruckId, {}, <<>>, Null)
            /\ UNCHANGED deliveries
       ELSE IF searchingTruckId \notin DOMAIN trucks
               \/ candidateTruckId \notin DOMAIN trucks
       THEN /\ res' = AdvisoryResponse("merge", 404, searchingTruckId,
                                       candidateTruckId, {}, <<>>, Null)
            /\ UNCHANGED deliveries
       ELSE IF ActiveDeliveries(candidateTruckId) = {}
       THEN /\ res' = AdvisoryResponse("merge", 500, searchingTruckId,
                                       candidateTruckId, {}, <<>>, Null)
            /\ UNCHANGED deliveries
       ELSE \E optimalDriver \in OptimalDrivers(trucks[searchingTruckId],
                                                trucks[candidateTruckId]) :
               LET deliveryToMerge == FirstActiveDelivery(candidateTruckId)
               IN /\ deliveries' = [deliveries EXCEPT ![deliveryToMerge] =
                         MergeUpdate(@, optimalDriver, searchingTruckId)]
                  /\ res' = AdvisoryResponse("merge", 200, searchingTruckId,
                                candidateTruckId, {}, <<>>, optimalDriver)

NextAdvisory ==
    \/ \E truckId \in RequestedTruckIds, fails \in BOOLEAN :
           searchSynergy(truckId, fails)
    \/ \E searchingTruckId \in RequestedTruckIds,
          candidateTruckId \in RequestedTruckIds, fails \in BOOLEAN :
           confirmMerge(searchingTruckId, candidateTruckId, fails)

SpecAdvisory == InitAdvisory /\ [][NextAdvisory]_vars

----------------------------------------------------------------------------
(* Properties of allocateRoutes, one request at a time (Spec) *)

Allocated == res.op = "allocate" /\ res.code = 201

\* The deliveries bound to route r.
DeliveriesOf(r) == {d \in DeliveryIds : deliveries[d].optimizedRouteId = r}

\* The number of queue places taken by the allocations before the k-th.
RECURSIVE Offset(_, _)
Offset(allocations, k) ==
    IF k <= 1 THEN 0
    ELSE Offset(allocations, k - 1) + Len(allocations[k - 1].deliveries)

\* The place of truck t in truckList (0 when absent).
PlaceOf(truckList, t) ==
    IF \E i \in 1..Len(truckList) : truckList[i] = t
    THEN CHOOSE i \in 1..Len(truckList) : truckList[i] = t
    ELSE 0

\* C1: every route's total weight (the figure on the route and the sum over
\* the deliveries bound to it) is at most its truck's maxWeight when that limit
\* is set, and likewise its total volume and maxVolume.
C1_CapacityRespected ==
    \A i \in 1..Len(routes) :
        LET r == routes[i]
            t == trucks[r.truckId]
        IN /\ t.maxWeight # Null =>
                  /\ r.totalWeight <= t.maxWeight
                  /\ SumWeight(deliveries, DeliveriesOf(r.id)) <= t.maxWeight
           /\ t.maxVolume # Null =>
                  /\ r.totalVolume <= t.maxVolume
                  /\ SumVolume(deliveries, DeliveriesOf(r.id)) <= t.maxVolume

\* A route of two deliveries filled exactly to its truck's weight limit while a
\* delivery of the company stays pending.
C1_Witness ==
    /\ Allocated
    /\ \E i \in 1..Len(routes) :
           /\ trucks[routes[i].truckId].maxWeight = routes[i].totalWeight
           /\ routes[i].totalPackages = 2
    /\ \E d \in DeliveryIds :
           deliveries[d].status = "PENDING" /\ deliveries[d].courierCompanyId = res.companyId

\* C2: after a successful allocation the queue read is the company's pending
\* deliveries in time-window order, the allocations are consecutive runs of it
\* that together form a prefix, given to trucks in store order, each run ending
\* where the queue ends or at a delivery that does not fit on top of the run;
\* and exactly the deliveries of the runs became ALLOCATED.
C2_PrefixInQueueOrder ==
    Allocated =>
        LET q == res.queue
            A == res.allocations
        IN /\ Range(q) = {d \in DeliveryIds :
                             /\ pre.deliveries[d].courierCompanyId = res.companyId
                             /\ pre.deliveries[d].status = "PENDING"}
           /\ \A i, j \in 1..Len(q) :
                  i < j => deliveries[q[i]].timeWindowStart
                               <= deliveries[q[j]].timeWindowStart
           /\ \A k \in 1..Len(A) :
                  /\ Len(A[k].deliveries) > 0
                  /\ Offset(A, k + 1) <= Len(q)
                  /\ A[k].deliveries = SubSeq(q, Offset(A, k) + 1, Offset(A, k + 1))
                  /\ PlaceOf(res.truckList, A[k].truck) > 0
                  /\ k > 1 => PlaceOf(res.truckList, A[k - 1].truck)
                                  < PlaceOf(res.truckList, A[k].truck)
                  /\ Offset(A, k + 1) < Len(q) =>
                         LET next == deliveries[q[Offset(A, k + 1) + 1]]
                             t == trucks[A[k].truck]
                         IN \/ /\ t.maxWeight # Null
                               /\ A[k].totalWeight + next.cargoWeight > t.maxWeight
                            \/ /\ t.maxVolume # Null
                               /\ A[k].totalVolume + next.cargoVolumeLtrs > t.maxVolume
           /\ \A p \in 1..Len(res.truckList) :
                  LET t == trucks[res.truckList[p]]
                      before == {k \in 1..Len(A) : PlaceOf(res.truckList, A[k].truck) < p}
                      o == Offset(A, Cardinality(before) + 1)
                  IN (/\ \A k \in 1..Len(A) : A[k].truck # res.truckList[p]
                      /\ o < Len(q)) =>
                         \/ /\ t.maxWeight # Null
                            /\ deliveries[q[o + 1]].cargoWeight > t.maxWeight
                         \/ /\ t.maxVolume # Null
                            /\ deliveries[q[o + 1]].cargoVolumeLtrs > t.maxVolume
           /\ {d \in DeliveryIds : deliveries[d] # pre.deliveries[d]}
                  = UNION {Range(A[k].deliveries) : k \in 1..Len(A)}

\* Weights 2, 3, 4 in queue order and a single eligible truck of maxWeight 5:
\* one route with the first two deliveries, the third left PENDING.
C2_Witness ==
    /\ Allocated
    /\ Len(res.queue) = 3
    /\ [i \in 1..3 |-> deliveries[res.queue[i]].cargoWeight] = <<2, 3, 4>>
    /\ Len(res.truckList) = 1
    /\ trucks[res.truckList[1]].maxWeight = 5
    /\ Len(routes) = 1
    /\ Len(res.allocations) = 1
    /\ res.allocations[1].deliveries = SubSeq(res.queue, 1, 2)
    /\ DeliveriesOf(1) = {res.queue[1], res.queue[2]}
    /\ deliveries[res.queue[3]].status = "PENDING"

\* C4: when a write of the transaction fails (the request answers 500) the
\* store is as it was before the request: no route of the request, no delivery
\* and no truck changed.
C4_FailedAllocationChangesNothing ==
    (res.op = "allocate" /\ res.code = 500) =>
        /\ routes = pre.routes
        /\ deliveries = pre.deliveries
        /\ trucks = pre.trucks

\* A failed request that had two allocations to write.
C4_Witness ==
    /\ res.op = "allocate"
    /\ res.code = 500
    /\ Len(res.allocations) = 2

\* C5: after a successful allocation each allocation has exactly one new
\* route, ALLOCATED, on its truck; its deliveries are ALLOCATED and bound to the
\* truck, the truck's owner and that route; the truck is no longer available.
C5_AllocationCommitted ==
    Allocated =>
        /\ Len(routes) = Len(pre.routes) + Len(res.allocations)
        /\ \A k \in 1..Len(res.allocations) :
               LET a == res.allocations[k]
                   new == {i \in (Len(pre.routes) + 1)..Len(routes) :
                              routes[i].truckId = a.truck}
               IN /\ Cardinality(new) = 1
                  /\ \A i \in new :
                         /\ routes[i].status = "ALLOCATED"
                         /\ routes[i].id = i
                         /\ routes[i].driverId = trucks[a.truck].ownerId
                         /\ \A d \in Range(a.deliveries) :
                                /\ deliveries[d].status = "ALLOCATED"
                                /\ deliveries[d].truckId = a.truck
                                /\ deliveries[d].driverId = trucks[a.truck].ownerId
                                /\ deliveries[d].optimizedRouteId = routes[i].id
                  /\ ~trucks[a.truck].isAvailable

\* A successful allocation onto two trucks.
C5_Witness ==
    /\ Allocated
    /\ Len(res.allocations) = 2
    /\ Len(routes) = 2

\* C6: an allocation request leaves alone what it did not allocate: a truck
\* that received no delivery keeps its row (it stays available) and gets no route,
\* a delivery outside the allocations keeps its row, and a delivery that was
\* pending and not placed is PENDING with no truck, driver or route.
C6_UnallocatedUntouched ==
    res.op = "allocate" =>
        LET used == {res.allocations[k].truck :
                        k \in {j \in 1..Len(res.allocations) :
                                  Len(res.allocations[j].deliveries) > 0}}
            placed == UNION {Range(res.allocations[k].deliveries) :
                                k \in 1..Len(res.allocations)}
        IN /\ \A t \in TruckIds \ used :
                  /\ trucks[t] = pre.trucks[t]
                  /\ \A i \in (Len(pre.routes) + 1)..Len(routes) : routes[i].truckId # t
           /\ \A d \in DeliveryIds \ placed :
                  /\ deliveries[d] = pre.deliveries[d]
                  /\ pre.deliveries[d].status = "PENDING" =>
                         /\ deliveries[d].status = "PENDING"
                         /\ deliveries[d].truckId = Null
                         /\ deliveries[d].driverId = Null
                         /\ deliveries[d].optimizedRouteId = Null

\* A successful allocation in which an eligible truck received nothing, though
\* a delivery of the queue was left, and stays available.
C6_Witness ==
    /\ Allocated
    /\ \E p \in 1..Len(res.truckList) :
           /\ \A k \in 1..Len(res.allocations) :
                  res.allocations[k].truck # res.truckList[p]
           /\ trucks[res.truckList[p]].isAvailable
    /\ \E i \in 1..Len(res.queue) : deliveries[res.queue[i]].status = "PENDING"
    /\ Len(res.allocations) > 0

\* The rows the reads of a request for companyId were to find in the store st.
PendingIn(st, companyId) ==
    {d \in DeliveryIds : /\ st.deliveries[d].courierCompanyId = companyId
                         /\ st.deliveries[d].status = "PENDING"}
EligibleIn(st, companyId) ==
    {t \in TruckIds : /\ st.trucks[t].courierCompanyId = companyId
                      /\ st.trucks[t].isAvailable
                      /\ st.trucks[t].registrationStatus = "APPROVED"}

\* C7: the three outcomes without allocation are told apart and change
\* nothing: no company id is a 400 naming the missing field; no pending
\* delivery is a successful 200, whatever the trucks, which are not read;
\* pending deliveries and no eligible truck is a 400 naming the trucks.
C7_NonAllocatingOutcomes ==
    res.op = "allocate" =>
        /\ res.companyId = Null =>
               /\ res.code = 400 /\ ~res.success
               /\ res.message = "courierCompanyId is required"
               /\ Store = pre
        /\ (res.companyId # Null /\ PendingIn(pre, res.companyId) = {}) =>
               /\ res.code = 200 /\ res.success
               /\ res.message = "No pending deliveries to allocate"
               /\ res.truckList = <<>>
               /\ Store = pre
        /\ (/\ res.companyId # Null
            /\ PendingIn(pre, res.companyId) # {}
            /\ EligibleIn(pre, res.companyId) = {}) =>
               /\ res.code = 400 /\ ~res.success
               /\ res.message = "No available trucks for allocation"
               /\ Store = pre
        /\ (/\ res.companyId # Null
            /\ PendingIn(pre, res.companyId) # {}
            /\ EligibleIn(pre, res.companyId) # {}) => res.code \in {201, 500}

\* "Nothing to do" answered to a company that has no eligible truck either.
C7_Witness ==
    /\ res.op = "allocate"
    /\ res.code = 200
    /\ res.companyId # Null
    /\ PendingIn(pre, res.companyId) = {}
    /\ EligibleIn(pre, res.companyId) = {}

----------------------------------------------------------------------------
(* Properties of concurrent allocateRoutes requests (SpecConcurrent) *)

Committed(c) == calls[c].pc = "done" /\ calls[c].code = 201

TrucksOf(c) == {calls[c].allocations[k].truck : k \in 1..Len(calls[c].allocations)}
PlacedBy(c) ==
    UNION {Range(calls[c].allocations[k].deliveries) : k \in 1..Len(calls[c].allocations)}

\* C3: whatever the interleaving of two allocation requests, no truck is bound
\* to two of the routes they create and no delivery is placed in the routes of
\* both.
C3_NoDoubleAssignment ==
    /\ \A i, j \in 1..Len(routes) : i # j => routes[i].truckId # routes[j].truckId
    /\ \A c1, c2 \in CallIds :
           (c1 # c2 /\ Committed(c1) /\ Committed(c2)) =>
               /\ TrucksOf(c1) \cap TrucksOf(c2) = {}
               /\ PlacedBy(c1) \cap PlacedBy(c2) = {}

----------------------------------------------------------------------------
(* Properties of the opportunity ledger (SpecLedger) *)

Accepted == res.op = "accept" /\ res.code = 200

\* C8: a successful accept by route1 sets the status to BOTH_ACCEPTED when it
\* was ACCEPTED_BY_ROUTE2 and to ACCEPTED_BY_ROUTE1 otherwise, stamps
\* acceptedByRoute1At with the time of the request and leaves the other stamp;
\* the same for route2 with the sides exchanged.  So an accept repeated by a
\* side whose partner has not accepted leaves the status as it was.
C8_AcceptTable ==
    Accepted =>
        LET before == pre.opps[res.opportunityId]
            after == opps[res.opportunityId]
        IN /\ res.routeId = before.route1Id =>
                  /\ after.status = IF before.status = "ACCEPTED_BY_ROUTE2"
                                    THEN "BOTH_ACCEPTED" ELSE "ACCEPTED_BY_ROUTE1"
                  /\ after.acceptedByRoute1At = now
                  /\ after.acceptedByRoute1At > before.acceptedByRoute1At
                  /\ after.acceptedByRoute2At = before.acceptedByRoute2At
                  /\ before.status = "ACCEPTED_BY_ROUTE1" => after.status = before.status
           /\ (res.routeId # before.route1Id /\ res.routeId = before.route2Id) =>
                  /\ after.status = IF before.status = "ACCEPTED_BY_ROUTE1"
                                    THEN "BOTH_ACCEPTED" ELSE "ACCEPTED_BY_ROUTE2"
                  /\ after.acceptedByRoute2At = now
                  /\ after.acceptedByRoute2At > before.acceptedByRoute2At
                  /\ after.acceptedByRoute1At = before.acceptedByRoute1At
                  /\ before.status = "ACCEPTED_BY_ROUTE2" => after.status = before.status
           /\ res.routeId \in {before.route1Id, before.route2Id}
           /\ after.route1Id = before.route1Id
           /\ after.route2Id = before.route2Id

\* Route1 accepts after route2 has: the opportunity becomes BOTH_ACCEPTED.
C8_Witness ==
    /\ Accepted
    /\ res.routeId = opps[res.opportunityId].route1Id
    /\ pre.opps[res.opportunityId].status = "ACCEPTED_BY_ROUTE2"
    /\ opps[res.opportunityId].status = "BOTH_ACCEPTED"
    /\ opps[res.opportunityId].acceptedByRoute2At # Null

\* The place of a status in the chain PENDING -> ACCEPTED_BY_ROUTE1 or
\* ACCEPTED_BY_ROUTE2 -> BOTH_ACCEPTED -> COMPLETED.
ChainRank(status) ==
    CASE status = "PENDING" -> 0
      [] status \in {"ACCEPTED_BY_ROUTE1", "ACCEPTED_BY_ROUTE2"} -> 1
      [] status = "BOTH_ACCEPTED" -> 2
      [] status = "COMPLETED" -> 3
      [] OTHER -> 4

\* C9: whatever accept and handshake requests are made, each change of an
\* opportunity's status moves it forward in the chain, never backwards; an
\* accept on a BOTH_ACCEPTED opportunity does not return it to
\* ACCEPTED_BY_ROUTE1 or ACCEPTED_BY_ROUTE2.
C9_StatusOnlyForward ==
    [][\A o \in OppIds :
           opps'[o].status # opps[o].status =>
               ChainRank(opps'[o].status) > ChainRank(opps[o].status)]_vars

Terminal == {"COMPLETED", "EXPIRED"}

\* C10: an accept by one of its routes on an opportunity that was COMPLETED or
\* EXPIRED is refused and leaves the status and both acceptance stamps as they
\* were.
C10_TerminalStaysTerminal ==
    (/\ res.op = "accept"
     /\ res.opportunityId \in OppIds
     /\ pre.opps[res.opportunityId].status \in Terminal
     /\ res.routeId \in {pre.opps[res.opportunityId].route1Id,
                         pre.opps[res.opportunityId].route2Id}) =>
        /\ res.code # 200
        /\ opps[res.opportunityId] = pre.opps[res.opportunityId]

----------------------------------------------------------------------------
(* Properties of concurrent acceptSynergy requests (SpecAcceptConcurrent) *)

\* The status after the accepts of order, one after the other, from status.
RECURSIVE SequentialStatus(_, _)
SequentialStatus(status, order) ==
    IF order = <<>> THEN status
    ELSE SequentialStatus(AcceptedStatus(status, calls[Head(order)].side),
                          Tail(order))

\* C11: once concurrent accepts on an opportunity have all returned, its
\* status is the one some sequential order of the successful accepts gives
\* from PENDING; an accept by route1 and one by route2 leave BOTH_ACCEPTED.
C11_NoLostAccept ==
    (\A c \in CallIds : calls[c].pc = "done") =>
        \A o \in OppIds :
            LET written == {c \in CallIds : /\ calls[c].code = 200
                                            /\ calls[c].opportunityId = o}
            IN /\ opps[o].status \in
                      {SequentialStatus("PENDING", order) : order \in Orderings(written)}
               /\ {calls[c].side : c \in written} = {1, 2} =>
                      opps[o].status = "BOTH_ACCEPTED"

----------------------------------------------------------------------------
(* Properties of the ledger, continued (SpecLedger) *)

\* C12: an accept for an opportunity that does not exist answers 404, one whose
\* routeId is neither route of the opportunity answers 400, and neither
\* changes the status or an acceptance stamp of any opportunity.
C12_AcceptErrorsChangeNothing ==
    res.op = "accept" =>
        /\ res.opportunityId \notin DOMAIN pre.opps =>
               res.code = 404 /\ opps = pre.opps
        /\ (/\ res.opportunityId \in DOMAIN pre.opps
            /\ res.routeId \notin {pre.opps[res.opportunityId].route1Id,
                                   pre.opps[res.opportunityId].route2Id}) =>
               res.code = 400 /\ opps = pre.opps
        /\ res.code \in {400, 404} => opps = pre.opps

\* A route outside the pair is refused on an opportunity already accepted by
\* one side.
C12_Witness ==
    /\ res.op = "accept"
    /\ res.code = 400
    /\ res.opportunityId \in DOMAIN opps
    /\ opps[res.opportunityId].status = "ACCEPTED_BY_ROUTE2"
    /\ opps[res.opportunityId].acceptedByRoute2At # Null

Handshaken == res.op = "handshake" /\ res.code = 200

\* The workload of the driver of route r, from the drivers' figures.
RouteWorkload(r) ==
    LET d == trucks[routes[r].truckId].ownerId
    IN (IF drivers[d].totalDistanceKm = Null THEN 0 ELSE drivers[d].totalDistanceKm)
       + (IF drivers[d].totalHoursWorked = Null THEN 0 ELSE drivers[d].totalHoursWorked)

\* The route whose driver wins the relay rule, and the other one.
WinningRoute(opportunity) ==
    IF RouteWorkload(opportunity.route1Id) >= RouteWorkload(opportunity.route2Id)
    THEN opportunity.route1Id ELSE opportunity.route2Id

LosingRoute(opportunity) ==
    IF WinningRoute(opportunity) = opportunity.route1Id
    THEN opportunity.route2Id ELSE opportunity.route1Id

\* Delivery d was moved to the truck and the driver of route r.
TransferredTo(d, r) ==
    /\ deliveries[d].truckId = routes[r].truckId
    /\ deliveries[d].driverId = trucks[routes[r].truckId].ownerId
    /\ deliveries[d].status = "ABSORPTION_TRANSFERRED"

\* C13: after a successful handshake the opportunity is COMPLETED and every
\* delivery that was on the losing route (the route of the short-haul driver)
\* is on the winning driver's truck, with that driver, ABSORPTION_TRANSFERRED;
\* when route2's driver has the greater workload these are route1's deliveries.
C13_LosingRouteTransferred ==
    Handshaken =>
        LET opportunity == pre.opps[res.opportunityId]
        IN /\ opps[res.opportunityId].status = "COMPLETED"
           /\ \A d \in DOMAIN deliveries :
                  pre.deliveries[d].optimizedRouteId = LosingRoute(opportunity) =>
                      TransferredTo(d, WinningRoute(opportunity))

\* C14: when route1's driver has at least the workload of route2's driver, a
\* successful handshake puts every delivery of route2 on route1's truck with
\* route1's driver, ABSORPTION_TRANSFERRED, and completes the opportunity.
C14_Route2AbsorbedByRoute1 ==
    Handshaken =>
        LET opportunity == pre.opps[res.opportunityId]
        IN RouteWorkload(opportunity.route1Id) >= RouteWorkload(opportunity.route2Id) =>
               /\ opps[res.opportunityId].status = "COMPLETED"
               /\ \A d \in DOMAIN deliveries :
                      pre.deliveries[d].optimizedRouteId = opportunity.route2Id =>
                          TransferredTo(d, opportunity.route1Id)

\* Route1's driver has the strictly greater workload and route2's deliveries,
\* which were on route2's truck, are now on route1's.
C14_Witness ==
    /\ Handshaken
    /\ LET opportunity == pre.opps[res.opportunityId]
       IN /\ RouteWorkload(opportunity.route1Id) > RouteWorkload(opportunity.route2Id)
          /\ \E d \in DOMAIN deliveries :
                 /\ pre.deliveries[d].optimizedRouteId = opportunity.route2Id
                 /\ pre.deliveries[d].truckId = routes[opportunity.route2Id].truckId
                 /\ TransferredTo(d, opportunity.route1Id)

\* C15: the relay rule is decided by the two workloads alone, a missing figure
\* counting as 0: with workload1 >= workload2 (a tie included) driver1 is the
\* long-haul driver and route1's truck the target, otherwise driver2 and
\* route2's truck; the long-haul driver is the owner of the target truck.
C15_RelayRuleByWorkload ==
    Handshaken =>
        LET opportunity == pre.opps[res.opportunityId]
            truck1 == routes[opportunity.route1Id].truckId
            truck2 == routes[opportunity.route2Id].truckId
            first == RouteWorkload(opportunity.route1Id)
                         >= RouteWorkload(opportunity.route2Id)
            longHaul == res.events[1].assignedDriver
            target == IF first THEN truck1 ELSE truck2
        IN /\ longHaul = trucks[target].ownerId
           /\ first <=> longHaul = trucks[truck1].ownerId
           /\ \A d \in DOMAIN deliveries :
                  pre.deliveries[d].optimizedRouteId = opportunity.route2Id =>
                      /\ deliveries[d].truckId = target
                      /\ deliveries[d].driverId = longHaul

\* Equal workloads made of different figures, one of them missing: driver1 is
\* the long-haul driver.
C15_Witness ==
    /\ Handshaken
    /\ LET opportunity == pre.opps[res.opportunityId]
           driver1 == trucks[routes[opportunity.route1Id].truckId].ownerId
           driver2 == trucks[routes[opportunity.route2Id].truckId].ownerId
       IN /\ RouteWorkload(opportunity.route1Id) = RouteWorkload(opportunity.route2Id)
          /\ RouteWorkload(opportunity.route1Id) > 0
          /\ drivers[driver1] # drivers[driver2]
          /\ res.events[1].assignedDriver = driver1

\* C16: a handshake on an existing opportunity completes it whatever its
\* status, accepted or not, unless the transaction fails; on an unknown id it
\* answers 404 and changes no opportunity and no delivery.
C16_HandshakeNotGated ==
    res.op = "handshake" =>
        /\ (res.opportunityId \in DOMAIN pre.opps /\ res.code # 500) =>
               /\ res.code = 200
               /\ opps[res.opportunityId].status = "COMPLETED"
        /\ res.opportunityId \notin DOMAIN pre.opps =>
               /\ res.code = 404
               /\ opps = pre.opps
               /\ deliveries = pre.deliveries
        /\ res.code = 404 => res.opportunityId \notin DOMAIN pre.opps

\* A handshake completes an opportunity only one side had accepted.
C16_Witness ==
    /\ Handshaken
    /\ pre.opps[res.opportunityId].status = "ACCEPTED_BY_ROUTE1"
    /\ opps[res.opportunityId].status = "COMPLETED"

----------------------------------------------------------------------------
(* Properties of detectAbsorptionOpportunity (SpecDetect) *)

NonTerminal(o) == opps[o].status \notin Terminal

\* C17: whatever detect calls were made, no route is named by two
\* opportunities that are both neither COMPLETED nor EXPIRED; detect does not
\* create a second such opportunity for a pair of routes that has one.
C17_OneOpenOpportunityPerRoute ==
    \A o1, o2 \in DOMAIN opps :
        (o1 # o2 /\ NonTerminal(o1) /\ NonTerminal(o2)) =>
            {opps[o1].route1Id, opps[o1].route2Id}
                \cap {opps[o2].route1Id, opps[o2].route2Id} = {}

Detected == res.op = "detect"

\* The searching truck of the last call has an ACTIVE route in store st.
OnActiveRoute(st, t) ==
    /\ t \in DOMAIN st.trucks
    /\ \E r \in DOMAIN st.routes :
           st.routes[r].truckId = t /\ st.routes[r].status = "ACTIVE"

\* The other trucks and the hubs nearer than 5 km to the given position.
InsideGeofence(st, t, position) ==
    {b \in DOMAIN st.trucks \ {t} :
        LET p == st.trucks[b].position
        IN (p >= position => p - position < 5) /\ (p < position => position - p < 5)}

HubInReach(position) ==
    \E h \in DOMAIN hubs :
        LET p == hubs[h].position
        IN (p >= position => p - position < 5) /\ (p < position => position - p < 5)

\* C18: detect returns none, creates no opportunity and publishes no event
\* when the truck has no ACTIVE route, when every other truck is 5 km or more
\* from the given position, and when no hub is nearer than 5 km to it.
C18_DetectReturnsNone ==
    Detected =>
        ((\/ ~OnActiveRoute(pre, res.truckId)
          \/ InsideGeofence(pre, res.truckId, res.position) = {}
          \/ ~HubInReach(res.position)) =>
             /\ res.opportunity = Null
             /\ opps = pre.opps
             /\ res.events = <<>>)

\* Only the geofence stands in the way: the truck is on an ACTIVE route, a hub
\* is in reach, and another truck on an ACTIVE route, whose load the truck
\* could take, is exactly 5 km away.
C18_Witness ==
    /\ Detected
    /\ ~res.error
    /\ OnActiveRoute(pre, res.truckId)
    /\ HubInReach(res.position)
    /\ InsideGeofence(pre, res.truckId, res.position) = {}
    /\ \E b \in DOMAIN trucks \ {res.truckId} :
           /\ Distance(res.position, trucks[b].position) = 5
           /\ OnActiveRoute(pre, b)
           /\ trucks[b].currentWeight # Null
           /\ trucks[res.truckId].maxWeight # Null
           /\ trucks[res.truckId].maxWeight - trucks[b].currentWeight >= 0
           /\ trucks[res.truckId].currentWeight = Null
    /\ res.opportunity = Null
    /\ opps = pre.opps

\* What truck a can still take, and what truck b carries (an empty column is 0).
ResidualWeight(a) ==
    (IF trucks[a].maxWeight = Null THEN 0 ELSE trucks[a].maxWeight)
    - (IF trucks[a].currentWeight = Null THEN 0 ELSE trucks[a].currentWeight)

ResidualVolume(a) ==
    (IF trucks[a].maxVolume = Null THEN 0 ELSE trucks[a].maxVolume)
    - (IF trucks[a].currentVolume = Null THEN 0 ELSE trucks[a].currentVolume)

LoadWeight(b) == IF trucks[b].currentWeight = Null THEN 0 ELSE trucks[b].currentWeight

LoadVolume(b) == IF trucks[b].currentVolume = Null THEN 0 ELSE trucks[b].currentVolume

\* Truck b passes every check of a search by truck a at position.
Eligible(a, b, position) ==
    /\ b \in InsideGeofence(pre, a, position)
    /\ OnActiveRoute(pre, b)
    /\ HubInReach(position)
    /\ ResidualWeight(a) >= LoadWeight(b)
    /\ ResidualVolume(a) >= LoadVolume(b)

\* C19: for every opportunity detect created, the truck of route1 could take
\* the load of the truck of route2 in weight and in volume; and a search that
\* did not fail, by a truck on an ACTIVE route with a truck passing every check
\* in reach, returns a PENDING opportunity whose route1 is the searching truck's
\* route and whose route2 is the route of a truck passing the checks.
C19_CapacityAtCreation ==
    /\ \A o \in DOMAIN opps :
           LET a == routes[opps[o].route1Id].truckId
               b == routes[opps[o].route2Id].truckId
           IN /\ ResidualWeight(a) >= LoadWeight(b)
              /\ ResidualVolume(a) >= LoadVolume(b)
    /\ (/\ Detected
        /\ ~res.error
        /\ OnActiveRoute(pre, res.truckId)
        /\ \E b \in DOMAIN trucks : Eligible(res.truckId, b, res.position)) =>
           /\ res.opportunity \in DOMAIN opps \ DOMAIN pre.opps
           /\ opps[res.opportunity].status = "PENDING"
           /\ routes[opps[res.opportunity].route1Id].truckId = res.truckId
           /\ routes[opps[res.opportunity].route1Id].status = "ACTIVE"
           /\ Eligible(res.truckId, routes[opps[res.opportunity].route2Id].truckId,
                       res.position)

\* A truck with 10 of weight and 10 of volume left finds a truck loaded with 8
\* and 4 at 4 km, a hub at 3 km, and gets a PENDING opportunity for the two.
C19_Witness ==
    /\ Detected
    /\ res.opportunity \in DOMAIN opps
    /\ opps[res.opportunity].status = "PENDING"
    /\ LET a == routes[opps[res.opportunity].route1Id].truckId
           b == routes[opps[res.opportunity].route2Id].truckId
       IN /\ a = res.truckId
          /\ ResidualWeight(a) = 10 /\ ResidualVolume(a) = 10
          /\ LoadWeight(b) = 8 /\ LoadVolume(b) = 4
          /\ Distance(res.position, trucks[b].position) = 4
    /\ \E h \in DOMAIN hubs : Distance(res.position, hubs[h].position) = 3

\* The place in the returned rows of the first truck passing every check.
FirstEligible ==
    {k \in 1..Len(res.nearbyTrucks) :
        /\ Eligible(res.truckId, res.nearbyTrucks[k], res.position)
        /\ \A j \in 1..(k - 1) :
               ~Eligible(res.truckId, res.nearbyTrucks[j], res.position)}

\* C20: a detect call creates at most one opportunity, and the one it creates
\* is for the first truck, in the order the store returned the nearby trucks,
\* that passes every check: trucks before it that fail a check are passed
\* over without ending the search, trucks after it play no part.
C20_FirstMatch ==
    Detected =>
        /\ Len(opps) <= Len(pre.opps) + 1
        /\ \A o \in DOMAIN pre.opps : opps[o] = pre.opps[o]
        /\ Len(opps) = Len(pre.opps) + 1 =>
               \E k \in FirstEligible :
                   /\ routes[opps[Len(opps)].route2Id].truckId = res.nearbyTrucks[k]
                   /\ routes[opps[Len(opps)].route1Id].truckId = res.truckId
        /\ (FirstEligible # {} /\ OnActiveRoute(pre, res.truckId)) =>
               Len(opps) = Len(pre.opps) + 1

\* The first truck returned fails a check and the opportunity is created for
\* the second, which is no nearer than the first.
C20_Witness ==
    /\ Detected
    /\ Len(opps) = Len(pre.opps) + 1
    /\ Len(res.nearbyTrucks) = 2
    /\ ~Eligible(res.truckId, res.nearbyTrucks[1], res.position)
    /\ routes[opps[Len(opps)].route2Id].truckId = res.nearbyTrucks[2]
    /\ Distance(res.position, trucks[res.nearbyTrucks[2]].position)
           >= Distance(res.position, trucks[res.nearbyTrucks[1]].position)

\* C21: every opportunity names two different routes, on two different
\* trucks, and the two routes of the opportunity a call created were ACTIVE
\* when the call began.
C21_TwoActiveRoutesTwoTrucks ==
    /\ \A o \in DOMAIN opps :
           /\ opps[o].route1Id # opps[o].route2Id
           /\ routes[opps[o].route1Id].truckId # routes[opps[o].route2Id].truckId
    /\ Detected =>
           \A o \in DOMAIN opps \ DOMAIN pre.opps :
               /\ pre.routes[opps[o].route1Id].status = "ACTIVE"
               /\ pre.routes[opps[o].route2Id].status = "ACTIVE"

\* An opportunity was created by a truck standing within the geofence of the
\* given position, with room for its own load, while a third truck had no
\* ACTIVE route.
C21_Witness ==
    /\ Detected
    /\ Len(opps) = Len(pre.opps) + 1
    /\ Distance(res.position, trucks[res.truckId].position) < 5
    /\ ResidualWeight(res.truckId) >= LoadWeight(res.truckId)
    /\ ResidualVolume(res.truckId) >= LoadVolume(res.truckId)
    /\ \E t \in DOMAIN trucks : ~OnActiveRoute(pre, t)
    /\ opps[Len(opps)].route1Id # opps[Len(opps)].route2Id

Searched == res.op = "search"

\* C22: a failure inside detect, of a read, of the create or of the
\* publication, does not reach the caller: detect returns none, and the search
\* request that called it for an existing truck answers 200 all the same.
C22_DetectNeverRaises ==
    /\ (Detected /\ res.error) => res.opportunity = Null
    /\ (Searched /\ res.truckId \in DOMAIN pre.trucks /\ res.failAt # "lookup") =>
           /\ res.code = 200
           /\ res.error => res.opportunity = Null
           /\ res.failAt \in {"query", "emit"} => res.error

\* The publication failed inside a search: the request answers 200 with no
\* opportunity, and the opportunity detect had created is in the store.
C22_Witness ==
    /\ Searched
    /\ res.failAt = "emit"
    /\ res.code = 200
    /\ res.error
    /\ res.opportunity = Null
    /\ Len(opps) = Len(pre.opps) + 1

----------------------------------------------------------------------------
(* Properties of detection, acceptance and handshake together (SpecSynergy) *)

\* The handshake transaction of the last request is in the store: the
\* opportunity is COMPLETED and the deliveries of its route2 are transferred.
HandshakeCommitted ==
    /\ opps[res.opportunityId].status = "COMPLETED"
    /\ \A d \in DOMAIN deliveries :
           pre.deliveries[d].optimizedRouteId = pre.opps[res.opportunityId].route2Id =>
               deliveries[d].status = "ABSORPTION_TRANSFERRED"

\* C23: an event is published only for a mutation that is in the store: the
\* handshake event after the completion and the reassignment, the detect event
\* after the creation; a request that failed published nothing, and it left
\* the store either untouched (the write failed) or with the whole mutation
\* (the publication failed).
C23_PublishAfterCommit ==
    /\ res.op = "handshake" =>
           /\ res.events # <<>> => res.code = 200 /\ HandshakeCommitted
           /\ res.code = 500 =>
                  /\ res.events = <<>>
                  /\ \/ opps = pre.opps /\ deliveries = pre.deliveries
                     \/ HandshakeCommitted
    /\ (Detected \/ Searched) =>
           /\ \A o \in DOMAIN pre.opps : o \in DOMAIN opps /\ opps[o] = pre.opps[o]
           /\ res.events # <<>> =>
                  /\ Len(opps) = Len(pre.opps) + 1
                  /\ res.events[1].opportunityId = Len(opps)
                  /\ res.opportunity = Len(opps)
                  /\ opps[Len(opps)].status = "PENDING"
           /\ res.error => res.events = <<>>

\* The publication of a handshake failed: the request answered 500 without an
\* event, and the completion and the reassignment it had committed are kept.
C23_Witness ==
    /\ res.op = "handshake"
    /\ res.code = 500
    /\ res.events = <<>>
    /\ pre.opps[res.opportunityId].status # "COMPLETED"
    /\ opps[res.opportunityId].status = "COMPLETED"
    /\ \E d \in DOMAIN deliveries :
           /\ pre.deliveries[d].status # "ABSORPTION_TRANSFERRED"
           /\ deliveries[d].status = "ABSORPTION_TRANSFERRED"

----------------------------------------------------------------------------
(* Properties of cargo compatibility (SpecCargo) *)

Compared == res.op = "areCompatible"

\* C24: areCompatible is true when either type is missing, true when the two
\* types are the same whatever their case ('food' and 'FOOD'), and otherwise
\* true exactly when type2 in upper case is listed in the entry of type1 in
\* upper case.
C24_CompatibilityRule ==
    Compared =>
        res.result =
            (\/ res.type1 = "" \/ res.type2 = ""
             \/ ToUpperCase(res.type1) = ToUpperCase(res.type2)
             \/ ToUpperCase(res.type2) \in CARGO_COMPATIBILITY(ToUpperCase(res.type1)))

\* C25 as first stated: two types of the table exist for which the lookup
\* from the one's entry and the lookup from the other's disagree (looked at
\* once the function has been used on the table's types).
C25_TableAsymmetric ==
    (Compared /\ res.type1 \in TableTypes /\ res.type2 \in TableTypes) =>
        \E X \in TableTypes, Y \in TableTypes :
            areCompatible(X, Y) # areCompatible(Y, X)

\* C25: the table is symmetric: for any two of its types the lookup from the
\* first's entry and the lookup from the second's agree.
C25_TableSymmetric ==
    /\ \A X \in TableTypes, Y \in TableTypes : areCompatible(X, Y) = areCompatible(Y, X)
    /\ (Compared /\ res.type1 \in TableTypes /\ res.type2 \in TableTypes) =>
           res.result = (res.type1 = res.type2 \/ res.type1 \in CARGO_COMPATIBILITY(res.type2))

\* CLOTHING against FRAGILE is compatible, from CLOTHING's entry as it is
\* from FRAGILE's.
C25_Witness ==
    /\ Compared
    /\ res.type1 = "CLOTHING"
    /\ res.type2 = "FRAGILE"
    /\ res.result
    /\ areCompatible("FRAGILE", "CLOTHING")

----------------------------------------------------------------------------
(* Properties of the advisory search and merge (SpecAdvisory) *)

Advised == res.op = "advise" /\ res.code = 200

\* The other trucks that carry a delivery neither COMPLETED nor CANCELLED.
CandidateTrucks(truckId) ==
    {t \in DOMAIN trucks : t # truckId /\ ActiveDeliveries(t) # {}}

\* C26: the advisory search writes nothing, and when it answers 200 it
\* returns exactly the candidate trucks (other trucks with a delivery neither
\* COMPLETED nor CANCELLED) at most 10 km from the searching truck, each with
\* its four constraint flags, highProbability being true exactly when the
\* four flags are.
C26_AdvisorySearch ==
    res.op = "advise" =>
        /\ Store = pre
        /\ res.code = 200 =>
               LET mine == deliveries[FirstActiveDelivery(res.truckId)]
               IN /\ {r.id : r \in res.data} =
                         {t \in CandidateTrucks(res.truckId) :
                             Distance(OrZero(trucks[res.truckId].position),
                                      OrZero(trucks[t].position)) <= 10}
                  /\ \A r \in res.data :
                         LET theirs == deliveries[FirstActiveDelivery(r.id)]
                         IN /\ r.constraints.geofence
                            /\ r.constraints.capacity =
                                   (OrZero(trucks[res.truckId].capacity)
                                        - OrZero(mine.cargoWeight)
                                            >= OrZero(theirs.cargoWeight))
                            /\ r.constraints.safety =
                                   areCompatible(mine.cargoType, theirs.cargoType)
                            /\ r.constraints.path =
                                   (mine.dropLocation = theirs.dropLocation)
                            /\ r.highProbability =
                                   (/\ r.constraints.geofence
                                    /\ r.constraints.capacity
                                    /\ r.constraints.safety
                                    /\ r.constraints.path)

\* A search that returned a truck exactly 10 km away as a high-probability
\* match and another truck with a constraint unmet, and published the match.
C26_Witness ==
    /\ Advised
    /\ \E r \in res.data :
           /\ r.highProbability
           /\ Distance(OrZero(trucks[res.truckId].position),
                       OrZero(trucks[r.id].position)) = 10
    /\ \E r \in res.data : ~r.highProbability /\ ~r.constraints.capacity
    /\ res.events # <<>>

Merged == res.op = "merge" /\ res.code = 200

\* The delivery a merge takes: the candidate truck's first active delivery
\* as the store was before the request.
MergedDelivery ==
    CHOOSE d \in DOMAIN pre.deliveries :
        /\ pre.deliveries[d].truckId = res.candidateTruckId
        /\ pre.deliveries[d].status \notin {"COMPLETED", "CANCELLED"}
        /\ \A e \in DOMAIN pre.deliveries :
               (/\ pre.deliveries[e].truckId = res.candidateTruckId
                /\ pre.deliveries[e].status \notin {"COMPLETED", "CANCELLED"}) => d <= e

\* C27: a merge that succeeds puts the candidate's delivery on the searching
\* truck, whoever drives, and gives it to the owner of the searching or the
\* candidate truck whose score totalDistanceKm + totalHoursWorked is not
\* below the other's; a merge naming a truck that does not exist answers
\* not-found (or 500 when the lookup itself throws) and changes nothing.
C27_MergeTruckAndDriver ==
    res.op = "merge" =>
        /\ Merged =>
               LET owners == {trucks[res.truckId].ownerId,
                              trucks[res.candidateTruckId].ownerId}
                   merged == deliveries[MergedDelivery]
               IN /\ merged.truckId = res.truckId
                  /\ merged.driverId \in owners
                  /\ \A o \in owners : Score(merged.driverId) >= Score(o)
                  /\ res.assignedDriver = merged.driverId
                  /\ merged = [pre.deliveries[MergedDelivery] EXCEPT
                                  !.truckId = merged.truckId,
                                  !.driverId = merged.driverId]
                  /\ \A d \in DOMAIN deliveries :
                         d # MergedDelivery => deliveries[d] = pre.deliveries[d]
        /\ (res.truckId \notin DOMAIN trucks
                \/ res.candidateTruckId \notin DOMAIN trucks) =>
               /\ res.code \in {404, 500}
               /\ Store = pre
        /\ res.code = 404 =>
               (res.truckId \notin DOMAIN trucks
                    \/ res.candidateTruckId \notin DOMAIN trucks)

\* A merge whose driver is the candidate truck's owner, with the strictly
\* higher score, while the delivery moved to the searching truck.
C27_Witness ==
    /\ Merged
    /\ res.truckId # res.candidateTruckId
    /\ pre.deliveries[MergedDelivery].truckId = res.candidateTruckId
    /\ deliveries[MergedDelivery].truckId = res.truckId
    /\ deliveries[MergedDelivery].driverId = trucks[res.candidateTruckId].ownerId
    /\ Score(trucks[res.candidateTruckId].ownerId) > Score(trucks[res.truckId].ownerId)

----------------------------------------------------------------------------
(* Properties of repeated allocation (Spec) *)

\* C28: after any sequence of allocate requests run one after another, no two
\* routes have the same truck, every delivery is on at most one route and
\* stays on the route that took it, a truck is unavailable exactly when it
\* has a route, a delivery is ALLOCATED exactly when it is bound to a route,
\* and an allocation takes only trucks without a route and deliveries that
\* were pending and unbound.
C28_SequentialAllocations ==
    /\ \A i, j \in DOMAIN routes : routes[i].truckId = routes[j].truckId => i = j
    /\ \A d \in DeliveryIds :
           deliveries[d].optimizedRouteId \in {Null} \cup DOMAIN routes
    /\ \A r \in DOMAIN routes :
           /\ Cardinality(DeliveriesOf(r)) = routes[r].totalPackages
           /\ \A d \in DeliveriesOf(r) : deliveries[d].truckId = routes[r].truckId
    /\ \A t \in TruckIds :
           trucks[t].isAvailable = ~(\E r \in DOMAIN routes : routes[r].truckId = t)
    /\ \A d \in DeliveryIds :
           (deliveries[d].status = "ALLOCATED") = (deliveries[d].optimizedRouteId # Null)
    /\ Allocated =>
           /\ \A i \in DOMAIN res.allocations :
                  /\ pre.trucks[res.allocations[i].truck].isAvailable
                  /\ \A r \in DOMAIN pre.routes :
                         pre.routes[r].truckId # res.allocations[i].truck
                  /\ \A d \in Range(res.allocations[i].deliveries) :
                         /\ pre.deliveries[d].status = "PENDING"
                         /\ pre.deliveries[d].optimizedRouteId = Null
           /\ \A r \in DOMAIN pre.routes : routes[r] = pre.routes[r]
           /\ \A d \in DeliveryIds :
                  pre.deliveries[d].status = "ALLOCATED" =>
                      deliveries[d] = pre.deliveries[d]

\* A second allocation that added a route beside the routes of the first.
C28_Witness ==
    /\ Allocated
    /\ pre.routes # <<>>
    /\ Len(routes) > Len(pre.routes)
    /\ \E d \in DeliveryIds :
           /\ pre.deliveries[d].status = "PENDING"
           /\ deliveries[d].optimizedRouteId = Len(routes)

\* The earliest pending delivery of the company in store st.
HeadOf(st, companyId) ==
    CHOOSE d \in PendingIn(st, companyId) :
        \A e \in PendingIn(st, companyId) :
            st.deliveries[d].timeWindowStart <= st.deliveries[e].timeWindowStart

\* Delivery d alone is within both limits of truck t, a missing limit being
\* no limit.
FitsEmpty(st, d, t) ==
    /\ st.trucks[t].maxWeight = Null
           \/ st.deliveries[d].cargoWeight <= st.trucks[t].maxWeight
    /\ st.trucks[t].maxVolume = Null
           \/ st.deliveries[d].cargoVolumeLtrs <= st.trucks[t].maxVolume

\* The company has pending deliveries and eligible trucks, and the earliest
\* pending delivery fits none of the eligible trucks when empty.
HeadBlocked(st, companyId) ==
    /\ companyId # Null
    /\ PendingIn(st, companyId) # {}
    /\ EligibleIn(st, companyId) # {}
    /\ \A t \in EligibleIn(st, companyId) : ~FitsEmpty(st, HeadOf(st, companyId), t)

\* C29: an allocate request met by a store whose earliest pending delivery
\* fits no eligible truck when empty answers 201 with success, allocates
\* nothing, creates no route and changes no delivery or truck, whatever the
\* later deliveries of the queue, and leaves the store as blocked as it was,
\* so that the next request does the same.
C29_HeadOfLineBlocking ==
    [][HeadBlocked(Store, res'.companyId) =>
           /\ res'.op = "allocate"
           /\ res'.code = 201
           /\ res'.success
           /\ res'.allocations = <<>>
           /\ deliveries' = deliveries
           /\ trucks' = trucks
           /\ routes' = routes
           /\ HeadBlocked(pre', res'.companyId)
           /\ HeadBlocked([deliveries |-> deliveries', trucks |-> trucks',
                           routes |-> routes', opps |-> opps'], res'.companyId)]_vars

\* The second of two requests for a blocked company: nothing was ever
\* allocated, although a later delivery of the queue fits an eligible truck.
C29_Witness ==
    /\ res.op = "allocate"
    /\ res.code = 201
    /\ now >= 2
    /\ routes = <<>>
    /\ Store = pre
    /\ HeadBlocked(Store, res.companyId)
    /\ \E d \in PendingIn(Store, res.companyId), t \in EligibleIn(Store, res.companyId) :
           d # HeadOf(Store, res.companyId) /\ FitsEmpty(Store, d, t)

----------------------------------------------------------------------------
(* Properties of the ledger's stamps (SpecSynergy) *)

----------------------------------------------------------------------------
(* Frame of the handshake (SpecLedger) *)

\* C31: a handshake changes nothing but the status of its opportunity and
\* the truckId, driverId and status of the deliveries whose optimizedRouteId
\* is the opportunity's route2: the deliveries of route1 and of every other
\* route, the optimizedRouteId of the transferred deliveries, the routes and
\* the trucks (their availability included) are as they were.
C31_HandshakeFrame ==
    res.op = "handshake" =>
        /\ trucks = pre.trucks
        /\ routes = pre.routes
        /\ DOMAIN opps = DOMAIN pre.opps
        /\ \A o \in DOMAIN opps :
               IF o = res.opportunityId
               THEN opps[o] = [pre.opps[o] EXCEPT !.status = opps[o].status]
               ELSE opps[o] = pre.opps[o]
        /\ DOMAIN deliveries = DOMAIN pre.deliveries
        /\ \A d \in DOMAIN deliveries :
               IF /\ res.opportunityId \in DOMAIN pre.opps
                  /\ pre.deliveries[d].optimizedRouteId =
                         pre.opps[res.opportunityId].route2Id
               THEN deliveries[d] =
                        [pre.deliveries[d] EXCEPT !.truckId = deliveries[d].truckId,
                                                  !.driverId = deliveries[d].driverId,
                                                  !.status = deliveries[d].status]
               ELSE deliveries[d] = pre.deliveries[d]

\* A handshake that moved a delivery of route2 to the other truck and its
\* driver while the delivery stayed on route2, beside a delivery of route1.
C31_Witness ==
    /\ Handshaken
    /\ pre.opps[res.opportunityId].status # "COMPLETED"
    /\ \E d \in DOMAIN deliveries :
           /\ deliveries[d].optimizedRouteId = opps[res.opportunityId].route2Id
           /\ deliveries[d].truckId # pre.deliveries[d].truckId
           /\ deliveries[d].driverId # pre.deliveries[d].driverId
           /\ deliveries[d].status = "ABSORPTION_TRANSFERRED"
    /\ \E e \in DOMAIN deliveries :
           /\ deliveries[e].optimizedRouteId = opps[res.opportunityId].route1Id
           /\ deliveries[e] = pre.deliveries[e]

----------------------------------------------------------------------------
(* Expiry (SpecLedger) *)

\* C32: no opportunity is ever EXPIRED and expiresAt is never read: whatever
\* the clock says against expiresAt, an accept by a route of the opportunity
\* is taken (200, status and stamp written) and a handshake completes it
\* (200, COMPLETED), unless the write itself throws (500).
C32_NeverExpired ==
    /\ \A o \in DOMAIN opps : opps[o].status # "EXPIRED"
    /\ \A o \in DOMAIN pre.opps : opps[o].expiresAt = pre.opps[o].expiresAt
    /\ (/\ res.op = "accept"
        /\ res.opportunityId \in DOMAIN pre.opps
        /\ res.routeId \in {pre.opps[res.opportunityId].route1Id,
                            pre.opps[res.opportunityId].route2Id}) =>
           /\ res.code \in {200, 500}
           /\ res.code = 200 =>
                  /\ opps[res.opportunityId].status \in
                         {"ACCEPTED_BY_ROUTE1", "ACCEPTED_BY_ROUTE2", "BOTH_ACCEPTED"}
                  /\ now \in {opps[res.opportunityId].acceptedByRoute1At,
                              opps[res.opportunityId].acceptedByRoute2At}
    /\ (res.op = "handshake" /\ res.opportunityId \in DOMAIN pre.opps) =>
           /\ res.code \in {200, 500}
           /\ res.code = 200 => opps[res.opportunityId].status = "COMPLETED"

\* An opportunity that both routes accepted after its expiry time and a
\* handshake then completed.
C32_Witness ==
    /\ Handshaken
    /\ pre.opps[res.opportunityId].status = "BOTH_ACCEPTED"
    /\ opps[res.opportunityId].status = "COMPLETED"
    /\ opps[res.opportunityId].acceptedByRoute1At > opps[res.opportunityId].expiresAt
    /\ opps[res.opportunityId].acceptedByRoute2At > opps[res.opportunityId].expiresAt

====
